---- MODULE Spec2Model ----
(***************************************************************************)
(* A model of the Reddit retrieval pipeline of Perplexica:                 *)
(*   - MetaSearchAgent.searchAndAnswer / handleStream (event streaming),   *)
(*   - MetaSearchAgent.rerankDocs (document reranking),                    *)
(*   - getDocumentsFromLinks (batched, timeout-raced link fetching),       *)
(*   - the thread-scoring batch loop with extractTopCommentScore,          *)
(*   - the reddit proxy route GET (fallback chain of access strategies).   *)
(*   - the retrying fetch, extractRedditContent and processDocs,           *)
(*   - the search branch and the link branch of the retriever chain,       *)
(*   - createAnsweringChain (the context of one run),                      *)
(*   - MockDb (the in-memory database).                                    *)
(* Each subsystem has its own specification over the shared variables;     *)
(* the variables of the other subsystems stay at their idle values.        *)
(***************************************************************************)
EXTENDS Integers, Sequences, FiniteSets, TLC

VARIABLES
    \* ---- searchAndAnswer / handleStream ----
    searchWeb,          \* this.config.searchWeb
    optimizationMode,   \* 'speed' | 'balanced' | 'quality'
    hasFiles,           \* fileIds.length > 0
    chainPc,            \* position of the answering chain
    rewritten,          \* outcome of the query-rewrite step
    nDocs,              \* number of documents handed to rerankDocs
    chunksLeft,         \* chunks the generator will still stream
    stream,             \* StreamEvents yielded by answeringChain.streamEvents
    handled,            \* number of stream events consumed by handleStream
    handlerSt,          \* state of the (un-awaited) handleStream promise
    emitted,            \* events delivered on the returned emitter
    \* ---- rerankDocs ----
    rrQuery,            \* query
    rrDocs,             \* docs
    rrFiles,            \* filesData read for fileIds
    rrMode,             \* optimizationMode
    rrRerank,           \* this.config.rerank
    rrPc,               \* "idle" | "returned"
    rrOut,              \* the returned list
    rrCalls,            \* the calls made to the embedding service
    \* ---- getDocumentsFromLinks ----
    glLinks,            \* links (the kind of each input link)
    glProd,             \* process.env.VERCEL === '1'
    glPc,               \* "idle" | "loop" | "wave" | "delay" | "returned" | "rejected"
    glI,                \* the loop variable i
    glFetch,            \* per processed link: state of its fetchPromise
    glWrap,             \* per processed link: state of its Promise.all element
    docs,               \* the docs array
    \* ---- thread scoring ----
    scUrls,             \* initialRedditUrls (the kind of each url)
    scPc,               \* "idle" | "loop" | "wave" | "delay" | "selected"
    scI,                \* the loop variable i
    scW,                \* per url: state of its extractTopCommentScore call
    scRes,              \* per url: the value its call resolved with
    scCompleted,        \* the urls of the current batch in the order their calls settled
    allScoreResults,    \* allScoreResults
    topRedditUrls,      \* topRedditUrls
    \* ---- reddit proxy route ----
    pxVariant,          \* which definition of GET serves the request
    pxUrl,              \* the url parameter: "missing" | "other" | "reddit"
    pxPc,               \* "idle" | "trying" | "responded"
    pxIdx,              \* the strategy whose try block is next
    pxAttempts,         \* the strategies attempted so far, with their results
    pxOutcome,          \* the promise GET returned: "pending" | "resolved" | "rejected"
    pxResponse,         \* the response GET resolved with
    \* ---- the retrying fetch ----
    rfSite,             \* which copy of the loop: "scorer" | "links"
    rfUrl,              \* the host the url names: "www" | "old" | "bare"
    rfPc,               \* "idle" | "primary" | "alternate" | "delay" | "done" | "failed"
    rfRetries,          \* retries
    rfStatus,           \* status of the error caught last: "none" | "429" | "other"
    rfLog,              \* the requests issued and the delays begun, in order
    rfError,            \* the error the loop threw, "none" if it did not
    \* ---- extractRedditContent ----
    exHtml,             \* htmlContent, as the parts the regular expressions find
    exPc,               \* "idle" | "returned"
    exOut,              \* the value returned
    \* ---- processDocs ----
    pdDocs,             \* docs, the ranked documents handed over
    pdPc,               \* "idle" | "returned"
    pdOut,              \* the assembled context: the header's count and the blocks
    \* ---- the search branch of createSearchRetrieverChain ----
    smResults,          \* res.results (the kind of each result)
    smScoreEnv,         \* per result: what the score-fetch of its url comes to
    smFetchEnv,         \* per result: what the full fetch of its url comes to
    smPc,               \* "idle" | "scored" | "selected" | "fetched" | "returned"
    smAllScoreResults,  \* allScoreResults
    smTopRedditUrls,    \* topRedditUrls
    documents,          \* documents
    \* ---- the link branch of createSearchRetrieverChain ----
    lgLinkDocs,         \* linkDocs, the documents getDocumentsFromLinks returned
    lgPc,               \* "idle" | "summarizing" | "returned" | "rejected"
    docGroups,          \* docGroups
    lgInvoke,           \* per group: state of its llm.invoke call
    lgDocs,             \* docs, the summary documents pushed so far
    \* ---- createAnsweringChain ----
    acSearchWeb,        \* this.config.searchWeb
    acHistory,          \* chat_history
    acFiles,            \* filesData read for fileIds
    acMode,             \* optimizationMode
    acRerank,           \* this.config.rerank
    llmTemperature,     \* the temperature of the caller's llm object, in tenths
    acPc,               \* "Idle" | "Reranking" | "Assembling" | "Generating" | "Done" | "Failed"
    acRewritten,        \* what the rewrite gave: "none" | "not_needed" | "links" | "search"
    acQuery,            \* the query handed to rerankDocs
    acRetrieved,        \* the documents handed to rerankDocs
    acInFlight,         \* fetchPromises of the run's link fetch still running
    acCalls,            \* the collaborators called so far
    acSorted,           \* sortedDocs
    acContext,          \* the context the generator is invoked with
    acEmitted,          \* the events on the emitter
    acFailure,          \* what made the chain throw, "none" if nothing did
    \* ---- Db ----
    chats,              \* MockDb.chats: chat id -> row (its title), NoChat when absent
    messages,           \* MockDb.messages: chat id -> [present, rows]
    messageIdCounter,   \* MockDb.messageIdCounter
    lastCall            \* the insert or delete executed last

streamVars == <<searchWeb, optimizationMode, hasFiles, chainPc, rewritten,
                nDocs, chunksLeft, stream, handled, handlerSt, emitted>>

rerankVars == <<rrQuery, rrDocs, rrFiles, rrMode, rrRerank, rrPc, rrOut, rrCalls>>

linkVars == <<glLinks, glProd, glPc, glI, glFetch, glWrap, docs>>

scoreVars == <<scUrls, scPc, scI, scW, scRes, scCompleted, allScoreResults,
               topRedditUrls>>

proxyVars == <<pxVariant, pxUrl, pxPc, pxIdx, pxAttempts, pxOutcome, pxResponse>>

retryVars == <<rfSite, rfUrl, rfPc, rfRetries, rfStatus, rfLog, rfError>>

extractVars == <<exHtml, exPc, exOut>>

procVars == <<pdDocs, pdPc, pdOut>>

searchVars == <<smResults, smScoreEnv, smFetchEnv, smPc, smAllScoreResults,
                smTopRedditUrls, documents>>

groupVars == <<lgLinkDocs, lgPc, docGroups, lgInvoke, lgDocs>>

chainVars == <<acSearchWeb, acHistory, acFiles, acMode, acRerank, llmTemperature,
               acPc, acRewritten, acQuery, acRetrieved, acInFlight, acCalls, acSorted,
               acContext, acEmitted, acFailure>>

dbVars == <<chats, messages, messageIdCounter, lastCall>>

vars ==
    <<streamVars, rerankVars, linkVars, scoreVars, proxyVars, retryVars, extractVars,
      procVars,
      searchVars,
      groupVars,
      chainVars,
      dbVars>>

notStreamVars ==
    <<rerankVars, linkVars, scoreVars, proxyVars, retryVars, extractVars,
      procVars,
      searchVars,
      groupVars,
      chainVars,
      dbVars>>
notRerankVars ==
    <<streamVars, linkVars, scoreVars, proxyVars, retryVars, extractVars,
      procVars,
      searchVars,
      groupVars,
      chainVars,
      dbVars>>
notLinkVars ==
    <<streamVars, rerankVars, scoreVars, proxyVars, retryVars, extractVars,
      procVars,
      searchVars,
      groupVars,
      chainVars,
      dbVars>>
notScoreVars ==
    <<streamVars, rerankVars, linkVars, proxyVars, retryVars, extractVars,
      procVars,
      searchVars,
      groupVars,
      chainVars,
      dbVars>>
notRetryVars ==
    <<streamVars, rerankVars, linkVars, scoreVars, proxyVars, extractVars,
      procVars,
      searchVars,
      groupVars,
      chainVars,
      dbVars>>
notExtractVars ==
    <<streamVars, rerankVars, linkVars, scoreVars, proxyVars, retryVars,
      procVars,
      searchVars,
      groupVars,
      chainVars,
      dbVars>>
notProcVars ==
    <<streamVars, rerankVars, linkVars, scoreVars, proxyVars, retryVars, extractVars,
      searchVars,
      groupVars,
      chainVars,
      dbVars>>
notProxyVars ==
    <<streamVars, rerankVars, linkVars, scoreVars, retryVars, extractVars,
      procVars,
      searchVars,
      groupVars,
      chainVars,
      dbVars>>
notSearchVars ==
    <<streamVars, rerankVars, linkVars, scoreVars, proxyVars, retryVars,
      extractVars, procVars,
      groupVars,
      chainVars,
      dbVars>>
notGroupVars ==
    <<streamVars, rerankVars, linkVars, scoreVars, proxyVars, retryVars,
      extractVars, procVars, searchVars,
      chainVars,
      dbVars>>
notChainVars ==
    <<streamVars, rerankVars, linkVars, scoreVars, proxyVars, retryVars,
      extractVars, procVars, searchVars, groupVars,
      dbVars>>
notDbVars ==
    <<streamVars, rerankVars, linkVars, scoreVars, proxyVars, retryVars,
      extractVars, procVars, searchVars, groupVars, chainVars>>

Range(s) == {s[i] : i \in 1..Len(s)}

CountOf(s, x) == Cardinality({i \in 1..Len(s) : s[i] = x})

(***************************************************************************)
(* Bounds of the model.                                                    *)
(***************************************************************************)
MaxChunks == 2
MaxDocs == 2
MaxFileChunks == 1
MaxLinks == 4
MaxUrls == 4
MaxComments == 2
MaxContextDocs == 2
MaxResults == 2
MaxLinkDocs == 2
MaxMessages == 3

(***************************************************************************)
(* searchAndAnswer, the answering chain and handleStream.                  *)
(***************************************************************************)
Modes == {"speed", "balanced", "quality"}

Ev(e, n) == [event |-> e, name |-> n]

\* handleStream's loop body for one StreamEvent: what is emitted on the emitter.
EmitForAnyChainEnd(ev) ==
    (IF ev.event = "on_chain_end" THEN <<"sources">> ELSE <<>>)
    \o (IF ev.event = "on_chain_stream" /\ ev.name = "FinalResponseGenerator"
          THEN <<"response">> ELSE <<>>)
    \o (IF ev.event = "on_chain_end" /\ ev.name = "FinalResponseGenerator"
          THEN <<"end">> ELSE <<>>)

EmitFor(ev) ==
    (IF ev.event = "on_chain_end" /\ ev.name = "FinalSourceRetriever"
          THEN <<"sources">> ELSE <<>>)
    \o (IF ev.event = "on_chain_stream" /\ ev.name = "FinalResponseGenerator"
          THEN <<"response">> ELSE <<>>)
    \o (IF ev.event = "on_chain_end" /\ ev.name = "FinalResponseGenerator"
          THEN <<"end">> ELSE <<>>)

StreamIdle ==
    /\ searchWeb = TRUE
    /\ optimizationMode = "speed"
    /\ hasFiles = FALSE
    /\ chainPc = "Idle"
    /\ rewritten = "none"
    /\ nDocs = 0
    /\ chunksLeft = 0
    /\ stream = <<>>
    /\ handled = 0
    /\ handlerSt = "notStarted"
    /\ emitted = <<>>

StreamInit ==
    /\ searchWeb \in BOOLEAN
    /\ optimizationMode \in Modes
    /\ hasFiles \in BOOLEAN
    /\ chainPc = "Idle"
    /\ rewritten = "none"
    /\ nDocs = 0
    /\ chunksLeft \in 0..MaxChunks
    /\ stream = <<>>
    /\ handled = 0
    /\ handlerSt = "notStarted"
    /\ emitted = <<>>

\* rerankDocs calls the embedding service unless it returns early.
RerankEmbeds ==
    /\ ~(nDocs = 0 /\ ~hasFiles)
    /\ rewritten # "links_summarize"
    /\ \/ optimizationMode = "balanced"
       \/ optimizationMode = "speed" /\ hasFiles

\* searchAndAnswer: builds the chain, starts streamEvents, starts handleStream
\* without awaiting it, and returns the emitter.
searchAndAnswer ==
    /\ chainPc = "Idle"
    /\ chainPc' = IF searchWeb THEN "Rewriting" ELSE "Reranking"
    /\ handlerSt' = "looping"
    /\ stream' = <<Ev("on_chain_start", "FinalResponseGenerator"),
                   Ev("on_chain_start", "FinalSourceRetriever")>>
    /\ UNCHANGED <<searchWeb, optimizationMode, hasFiles, rewritten, nDocs,
                   chunksLeft, handled, emitted>>

\* createSearchRetrieverChain: the query-rewrite llm call and its parsing.
Rewrite ==
    /\ chainPc = "Rewriting"
    /\ \E r \in {"not_needed", "links", "links_summarize", "search", "failed"} :
          /\ rewritten' = r
          /\ chainPc' = CASE r = "not_needed" -> "Reranking"
                          [] r \in {"links", "links_summarize"} -> "LinkMode"
                          [] r = "search" -> "SearchMode"
                          [] OTHER -> "Failed"
    /\ UNCHANGED <<searchWeb, optimizationMode, hasFiles, nDocs, chunksLeft,
                   stream, handled, handlerSt, emitted>>

\* Link mode: getDocumentsFromLinks, grouping, one summarization call per group.
LinkMode ==
    /\ chainPc = "LinkMode"
    /\ \/ \E n \in 0..MaxDocs : nDocs' = n /\ chainPc' = "Reranking"
       \/ nDocs' = nDocs /\ chainPc' = "Failed"
    /\ UNCHANGED <<searchWeb, optimizationMode, hasFiles, rewritten, chunksLeft,
                   stream, handled, handlerSt, emitted>>

\* Search mode: searchGoogle, scoring, full fetch, snippet fallback.
SearchMode ==
    /\ chainPc = "SearchMode"
    /\ \/ \E n \in 0..MaxDocs : nDocs' = n /\ chainPc' = "Reranking"
       \/ nDocs' = nDocs /\ chainPc' = "Failed"
    /\ UNCHANGED <<searchWeb, optimizationMode, hasFiles, rewritten, chunksLeft,
                   stream, handled, handlerSt, emitted>>

\* rerankDocs returns: the FinalSourceRetriever lambda ends, processDocs follows.
RerankDone ==
    /\ chainPc = "Reranking"
    /\ chainPc' = "Generating"
    /\ stream' = stream \o <<Ev("on_chain_stream", "FinalSourceRetriever"),
                             Ev("on_chain_end", "FinalSourceRetriever")>>
    /\ UNCHANGED <<searchWeb, optimizationMode, hasFiles, rewritten, nDocs,
                   chunksLeft, handled, handlerSt, emitted>>

\* an embedding call made by rerankDocs rejects.
RerankFail ==
    /\ chainPc = "Reranking"
    /\ RerankEmbeds
    /\ chainPc' = "Failed"
    /\ UNCHANGED <<searchWeb, optimizationMode, hasFiles, rewritten, nDocs,
                   chunksLeft, stream, handled, handlerSt, emitted>>

\* the generator streams one chunk.
GenerateChunk ==
    /\ chainPc = "Generating"
    /\ chunksLeft > 0
    /\ chunksLeft' = chunksLeft - 1
    /\ stream' = Append(stream, Ev("on_chain_stream", "FinalResponseGenerator"))
    /\ UNCHANGED <<searchWeb, optimizationMode, hasFiles, chainPc, rewritten,
                   nDocs, handled, handlerSt, emitted>>

\* the generator finishes.
GenerateEnd ==
    /\ chainPc = "Generating"
    /\ chunksLeft = 0
    /\ chainPc' = "Done"
    /\ stream' = Append(stream, Ev("on_chain_end", "FinalResponseGenerator"))
    /\ UNCHANGED <<searchWeb, optimizationMode, hasFiles, rewritten, nDocs,
                   chunksLeft, handled, handlerSt, emitted>>

\* the final generation call rejects.
GenerateFail ==
    /\ chainPc = "Generating"
    /\ chainPc' = "Failed"
    /\ UNCHANGED <<searchWeb, optimizationMode, hasFiles, rewritten, nDocs,
                   chunksLeft, stream, handled, handlerSt, emitted>>

\* handleStream: one iteration of `for await (const event of stream)`.
handleStream ==
    /\ handlerSt = "looping"
    /\ handled < Len(stream)
    /\ handled' = handled + 1
    /\ emitted' = emitted \o EmitFor(stream[handled + 1])
    /\ UNCHANGED <<searchWeb, optimizationMode, hasFiles, chainPc, rewritten,
                   nDocs, chunksLeft, stream, handlerSt>>

\* the stream is exhausted: the loop ends and handleStream resolves.
handleStreamReturn ==
    /\ handlerSt = "looping"
    /\ handled = Len(stream)
    /\ chainPc = "Done"
    /\ handlerSt' = "returned"
    /\ UNCHANGED <<searchWeb, optimizationMode, hasFiles, chainPc, rewritten,
                   nDocs, chunksLeft, stream, handled, emitted>>

\* the stream throws: handleStream has no try/catch and nobody awaits it, so
\* its promise rejects and nothing is emitted.
handleStreamReject ==
    /\ handlerSt = "looping"
    /\ handled = Len(stream)
    /\ chainPc = "Failed"
    /\ handlerSt' = "rejected"
    /\ UNCHANGED <<searchWeb, optimizationMode, hasFiles, chainPc, rewritten,
                   nDocs, chunksLeft, stream, handled, emitted>>

StreamNext ==
    \/ searchAndAnswer /\ UNCHANGED notStreamVars
    \/ Rewrite /\ UNCHANGED notStreamVars
    \/ LinkMode /\ UNCHANGED notStreamVars
    \/ SearchMode /\ UNCHANGED notStreamVars
    \/ RerankDone /\ UNCHANGED notStreamVars
    \/ RerankFail /\ UNCHANGED notStreamVars
    \/ GenerateChunk /\ UNCHANGED notStreamVars
    \/ GenerateEnd /\ UNCHANGED notStreamVars
    \/ GenerateFail /\ UNCHANGED notStreamVars
    \/ handleStream /\ UNCHANGED notStreamVars
    \/ handleStreamReturn /\ UNCHANGED notStreamVars
    \/ handleStreamReject /\ UNCHANGED notStreamVars

(***************************************************************************)
(* MetaSearchAgent.rerankDocs.                                             *)
(* A web document is [pageContent, url]; its embedding is what the         *)
(* embedding service returns for its pageContent.  An uploaded-file chunk  *)
(* is [fileName, content, embeddings].  Vectors are pairs of integers and  *)
(* a similarity is kept exactly as dot / sqrt(norm2).                      *)
(***************************************************************************)
Contents == {"", "c1", "c2", "c3"}

Queries == {"q", "summarize", "Summarize"}

\* the query left in the letter case it came in
toLocaleLowerCaseNone(q) == q

\* String.prototype.toLocaleLowerCase on the queries of the model.
toLocaleLowerCase(q) == IF q = "Summarize" THEN "summarize" ELSE q

\* embeddings.embedDocuments for one text / embeddings.embedQuery.
embedDocument(c) ==
    CASE c = "c1" -> <<2, 0>>
      [] c = "c2" -> <<1, 3>>
      [] c = "c3" -> <<1, 4>>
      [] OTHER -> <<0, 1>>

embedQuery(q) == <<1, 0>>

FileVectors == {<<3, 1>>, <<1, 3>>, <<1, 4>>}

\* content.contents[i], the chunk text stored with embeddings.embeddings[i] = v
fileContent(v) ==
    CASE v = <<3, 1>> -> "f1"
      [] v = <<1, 3>> -> "f2"
      [] OTHER -> "f3"

Dot(a, b) == a[1] * b[1] + a[2] * b[2]

\* computeSimilarity (cosine): dot(a, b) / sqrt(|a|^2 |b|^2), kept exactly.
computeSimilarity(a, b) == [dot |-> Dot(a, b), norm2 |-> Dot(a, a) * Dot(b, b)]

\* x.dot / sqrt(x.norm2) < y.dot / sqrt(y.norm2)
SimLess(x, y) ==
    CASE x.dot < 0 /\ y.dot >= 0 -> TRUE
      [] x.dot >= 0 /\ y.dot < 0 -> FALSE
      [] x.dot >= 0 /\ y.dot >= 0 ->
            x.dot * x.dot * y.norm2 < y.dot * y.dot * x.norm2
      [] OTHER -> x.dot * x.dot * y.norm2 > y.dot * y.dot * x.norm2

\* this.config.rerankThreshold ?? 0.3, as the fraction ThresholdNum / ThresholdDen
ThresholdNum == 3
ThresholdDen == 10

\* sim.similarity > threshold
AboveThreshold(x) ==
    /\ x.dot > 0
    /\ ThresholdDen * ThresholdDen * x.dot * x.dot
          > ThresholdNum * ThresholdNum * x.norm2

\* Array.prototype.slice(0, n)
Take(s, n) == SubSeq(s, 1, IF Len(s) < n THEN Len(s) ELSE n)

RECURSIVE InsertBySim(_, _)
\* x goes behind every element whose similarity is not below its own
InsertBySim(x, s) ==
    IF s = <<>> THEN <<x>>
    ELSE IF SimLess(Head(s).similarity, x.similarity) THEN <<x>> \o s
    ELSE <<Head(s)>> \o InsertBySim(x, Tail(s))

RECURSIVE SortBySimFrom(_, _)
SortBySimFrom(s, acc) ==
    IF s = <<>> THEN acc ELSE SortBySimFrom(Tail(s), InsertBySim(Head(s), acc))

\* the list left in the order it came in
SortBySimilarityNone(s) == s

\* Array.prototype.sort((a, b) => b.similarity - a.similarity): stable, descending
SortBySimilarity(s) == SortBySimFrom(s, <<>>)

RERANK_CAP_SPEED == 30
RERANK_CAP_BALANCED == 20

fileDoc(fileData) ==
    [pageContent |-> fileData.content, url |-> "File", title |-> fileData.fileName]

\* a filter that keeps every document
HasContentOrNot(doc) == TRUE

\* doc.pageContent && doc.pageContent.length > 0
HasContent(doc) == doc.pageContent # ""

\* the `speed` branch of rerankDocs
rerankSpeed(query, docsWithContent, filesData) ==
    IF Len(filesData) > 0 THEN
        LET queryEmbedding == embedQuery(query)
            fileDocs == [i \in 1..Len(filesData) |-> fileDoc(filesData[i])]
            similarity == [i \in 1..Len(filesData) |->
                 [index |-> i,
                  similarity |-> computeSimilarity(queryEmbedding, filesData[i].embeddings)]]
            kept == Take(SortBySimilarity(
                        SelectSeq(similarity, LAMBDA sim : AboveThreshold(sim.similarity))),
                        RERANK_CAP_SPEED)
            sortedDocs == [i \in 1..Len(kept) |-> fileDocs[kept[i].index]]
        IN  sortedDocs \o Take(docsWithContent, RERANK_CAP_SPEED - Len(sortedDocs))
    ELSE Take(docsWithContent, RERANK_CAP_SPEED)

\* the `balanced` branch of rerankDocs
rerankBalanced(query, docsWithContent, filesData) ==
    LET webEmbeddings == [i \in 1..Len(docsWithContent) |->
                              embedDocument(docsWithContent[i].pageContent)]
        queryEmbedding == embedQuery(query)
        allDocs == docsWithContent
                     \o [i \in 1..Len(filesData) |-> fileDoc(filesData[i])]
        docEmbeddings == webEmbeddings
                     \o [i \in 1..Len(filesData) |-> filesData[i].embeddings]
        similarity == [i \in 1..Len(docEmbeddings) |->
             [index |-> i,
              similarity |-> computeSimilarity(queryEmbedding, docEmbeddings[i])]]
        kept == Take(SortBySimilarity(
                    SelectSeq(similarity, LAMBDA sim : AboveThreshold(sim.similarity))),
                    RERANK_CAP_BALANCED)
    IN  [i \in 1..Len(kept) |-> allDocs[kept[i].index]]

\* rerankDocs(query, docs, fileIds, embeddings, optimizationMode) with
\* filesData read from the uploaded-file store and rerank = this.config.rerank
rerankDocs(query, inputDocs, filesData, mode, rerank) ==
    IF Len(inputDocs) = 0 /\ Len(filesData) = 0 THEN inputDocs
    ELSE IF toLocaleLowerCase(query) = "summarize" THEN Take(inputDocs, RERANK_CAP_SPEED)
    ELSE LET docsWithContent == SelectSeq(inputDocs, HasContent)
         IN  IF mode = "speed" \/ rerank = FALSE
                THEN rerankSpeed(query, docsWithContent, filesData)
             ELSE IF mode = "balanced"
                THEN rerankBalanced(query, docsWithContent, filesData)
             ELSE <<>>

\* the calls to the embedding service on the path rerankDocs takes
embeddingCalls(query, inputDocs, filesData, mode, rerank) ==
    IF Len(inputDocs) = 0 /\ Len(filesData) = 0 THEN {}
    ELSE IF toLocaleLowerCase(query) = "summarize" THEN {}
    ELSE IF mode = "speed" \/ rerank = FALSE
            THEN IF Len(filesData) > 0 THEN {"embedQuery"} ELSE {}
    ELSE IF mode = "balanced" THEN {"embedDocuments", "embedQuery"}
    ELSE {}

\* all sequences over S of length at most n
SeqsUpTo(S, n) == UNION {[1..k -> S] : k \in 0..n}

\* lists longer than the caps: 31 documents, the first of them without content
LongWebDocLists ==
    {[i \in 1..(RERANK_CAP_SPEED + 1) |->
         [pageContent |-> IF i = 1 THEN first ELSE "c1", url |-> i, title |-> "web"]] :
        first \in {"", "c2"}}

WebDocLists ==
    {[i \in 1..Len(cs) |-> [pageContent |-> cs[i], url |-> i, title |-> "web"]] :
        cs \in SeqsUpTo(Contents, MaxDocs)}
      \cup LongWebDocLists

FileDataLists ==
    {[i \in 1..Len(vs) |-> [fileName |-> "file", content |-> fileContent(vs[i]),
                            embeddings |-> vs[i]]] :
        vs \in SeqsUpTo(FileVectors, MaxFileChunks)}

RerankIdle ==
    /\ rrQuery = "q"
    /\ rrDocs = <<>>
    /\ rrFiles = <<>>
    /\ rrMode = "speed"
    /\ rrRerank = TRUE
    /\ rrPc = "idle"
    /\ rrOut = <<>>
    /\ rrCalls = {}

RerankInit ==
    /\ rrQuery \in Queries
    /\ rrDocs \in WebDocLists
    /\ rrFiles \in FileDataLists
    /\ rrMode \in Modes
    /\ rrRerank \in BOOLEAN
    /\ rrPc = "idle"
    /\ rrOut = <<>>
    /\ rrCalls = {}

\* one call of rerankDocs on the drawn inputs
rerankDocsCall ==
    /\ rrPc = "idle"
    /\ rrOut' = rerankDocs(rrQuery, rrDocs, rrFiles, rrMode, rrRerank)
    /\ rrCalls' = embeddingCalls(rrQuery, rrDocs, rrFiles, rrMode, rrRerank)
    /\ rrPc' = "returned"
    /\ UNCHANGED <<rrQuery, rrDocs, rrFiles, rrMode, rrRerank>>

RerankNext ==
    \/ rerankDocsCall /\ UNCHANGED notRerankVars


(***************************************************************************)
(* getDocumentsFromLinks (lib/utils/documents.ts).                         *)
(* An input link is identified by its position in `links`; its kind tells  *)
(* how the normalization treats it: "post" is a reddit post url, "nonpost" *)
(* a reddit url that is skipped (mapped to null), "other" a non-reddit url.*)
(***************************************************************************)
LinkKinds == {"post", "nonpost", "other"}

MAX_REDDIT_LINKS == 5
LINK_BATCH_SIZE == 2

\* normalizedLinks: the input positions that survive .filter(Boolean)
normalizedLinks(links) ==
    SelectSeq([i \in 1..Len(links) |-> i], LAMBDA i : links[i] # "nonpost")

\* redditLinks.slice(0, MAX_REDDIT_LINKS)
redditLinksToProcess(links) ==
    Take(SelectSeq(normalizedLinks(links), LAMBDA i : links[i] = "post"),
         MAX_REDDIT_LINKS)

nonRedditLinks(links) ==
    SelectSeq(normalizedLinks(links), LAMBDA i : links[i] = "other")

\* the documents the function builds
redditDocument(link) == [url |-> link, title |-> "reddit", error |-> "none"]

failedDocument(link, message) ==
    [url |-> link, title |-> "Failed to retrieve content", error |-> message]

nonRedditDocument(link) == [url |-> link, title |-> "Non-Reddit URL", error |-> "none"]

\* batchLinks = redditLinksToProcess.slice(i, i + BATCH_SIZE), as indices
glBatch == {k \in 1..Len(redditLinksToProcess(glLinks)) :
                glI < k /\ k <= glI + LINK_BATCH_SIZE}

glLink(k) == redditLinksToProcess(glLinks)[k]

\* fetchPromise bodies still running
glInFlight == {k \in DOMAIN glFetch : glFetch[k] = "inFlight"}

LinksIdle ==
    /\ glLinks = <<>>
    /\ glProd = FALSE
    /\ glPc = "idle"
    /\ glI = 0
    /\ glFetch = <<>>
    /\ glWrap = <<>>
    /\ docs = <<>>

LinksInit ==
    /\ glLinks \in SeqsUpTo(LinkKinds, MaxLinks)
    /\ glProd \in BOOLEAN
    /\ glPc = "idle"
    /\ glI = 0
    /\ glFetch = [k \in 1..Len(redditLinksToProcess(glLinks)) |-> "notStarted"]
    /\ glWrap = [k \in 1..Len(redditLinksToProcess(glLinks)) |-> "notStarted"]
    /\ docs = <<>>

\* the call: normalization and filtering, then the batch loop is entered
getDocumentsFromLinks ==
    /\ glPc = "idle"
    /\ glPc' = "loop"
    /\ UNCHANGED <<glLinks, glProd, glI, glFetch, glWrap, docs>>

\* one loop iteration begins: Promise.all over the batch, each link racing its
\* fetchPromise against its 20 s timeoutPromise
glStartWave ==
    /\ glPc = "loop"
    /\ glI < Len(redditLinksToProcess(glLinks))
    /\ glPc' = "wave"
    /\ glFetch' = [k \in DOMAIN glFetch |-> IF k \in glBatch THEN "inFlight" ELSE glFetch[k]]
    /\ glWrap' = [k \in DOMAIN glWrap |-> IF k \in glBatch THEN "racing" ELSE glWrap[k]]
    /\ UNCHANGED <<glLinks, glProd, glI, docs>>

\* the catch block of the per-link wrapper, run only when the race rejects
OnLinkErrorRethrow(k, message) ==
    /\ docs' = docs
    /\ glWrap' = [glWrap EXCEPT ![k] = "done"]
    /\ glPc' = "rejected"

OnLinkError(k, message) ==
    /\ docs' = Append(docs, failedDocument(glLink(k), message))
    /\ glWrap' = [glWrap EXCEPT ![k] = "done"]
    /\ glPc' = glPc

\* fetchPromise resolves after a successful extraction: it pushes the document
\* itself, whether or not the race is already settled
glFetchExtracted(k) ==
    /\ glFetch[k] = "inFlight"
    /\ glProd
    /\ glFetch' = [glFetch EXCEPT ![k] = "resolved"]
    /\ docs' = Append(docs, redditDocument(glLink(k)))
    /\ glWrap' = [glWrap EXCEPT ![k] = "done"]
    /\ UNCHANGED <<glLinks, glProd, glPc, glI>>

\* fetchPromise resolves with extractedReddit.success false: nothing is pushed
glFetchNoContent(k) ==
    /\ glFetch[k] = "inFlight"
    /\ glProd
    /\ glFetch' = [glFetch EXCEPT ![k] = "resolved"]
    /\ glWrap' = [glWrap EXCEPT ![k] = "done"]
    /\ UNCHANGED <<glLinks, glProd, glPc, glI, docs>>

\* fetchPromise rejects: proxy error, too little content, or (outside
\* production) 'Direct fetching not implemented'
glFetchFailed(k) ==
    /\ glFetch[k] = "inFlight"
    /\ glFetch' = [glFetch EXCEPT ![k] = "rejected"]
    /\ \E message \in (IF glProd THEN {"proxy", "insufficient"} ELSE {"direct"}) :
          IF glWrap[k] = "racing"
             THEN OnLinkError(k, message)
             ELSE UNCHANGED <<docs, glWrap, glPc>>
    /\ UNCHANGED <<glLinks, glProd, glI>>

\* timeoutPromise rejects while the race is undecided; fetchPromise goes on
glTimeout(k) ==
    /\ glWrap[k] = "racing"
    /\ glFetch[k] = "inFlight"
    /\ glProd
    /\ OnLinkError(k, "timeout")
    /\ UNCHANGED <<glLinks, glProd, glI, glFetch>>

\* Promise.all of the batch resolves; delay(BATCH_DELAY) unless it was the last
glWaveDone ==
    /\ glPc = "wave"
    /\ \A k \in glBatch : glWrap[k] = "done"
    /\ IF glI + LINK_BATCH_SIZE < Len(redditLinksToProcess(glLinks))
          THEN glPc' = "delay" /\ glI' = glI
          ELSE glPc' = "loop" /\ glI' = glI + LINK_BATCH_SIZE
    /\ UNCHANGED <<glLinks, glProd, glFetch, glWrap, docs>>

\* the inter-batch delay elapses
glDelayDone ==
    /\ glPc = "delay"
    /\ glPc' = "loop"
    /\ glI' = glI + LINK_BATCH_SIZE
    /\ UNCHANGED <<glLinks, glProd, glFetch, glWrap, docs>>

\* the loop is over: placeholders for the non-reddit links, then return docs
glReturn ==
    /\ glPc = "loop"
    /\ glI >= Len(redditLinksToProcess(glLinks))
    /\ docs' = docs \o [j \in 1..Len(nonRedditLinks(glLinks)) |->
                            nonRedditDocument(nonRedditLinks(glLinks)[j])]
    /\ glPc' = "returned"
    /\ UNCHANGED <<glLinks, glProd, glI, glFetch, glWrap>>

LinksNext ==
    \/ getDocumentsFromLinks /\ UNCHANGED notLinkVars
    \/ glStartWave /\ UNCHANGED notLinkVars
    \/ \E k \in DOMAIN glFetch : glFetchExtracted(k) /\ UNCHANGED notLinkVars
    \/ \E k \in DOMAIN glFetch : glFetchNoContent(k) /\ UNCHANGED notLinkVars
    \/ \E k \in DOMAIN glFetch : glFetchFailed(k) /\ UNCHANGED notLinkVars
    \/ \E k \in DOMAIN glFetch : glTimeout(k) /\ UNCHANGED notLinkVars
    \/ glWaveDone /\ UNCHANGED notLinkVars
    \/ glDelayDone /\ UNCHANGED notLinkVars
    \/ glReturn /\ UNCHANGED notLinkVars

(***************************************************************************)
(* The thread-scoring batch loop of createSearchRetrieverChain and its     *)
(* worker extractTopCommentScore.  A candidate url is identified by its    *)
(* position in initialRedditUrls; its kind is the host it names.           *)
(***************************************************************************)
UrlKinds == {"www", "bare"}

SCORE_BATCH_SIZE == 3
maxRetries == 3
TOP_URLS == 10

\* normalizedUrl names old.reddit.com: 'www.reddit.com' is replaced, 'old.' stays
NormalizedIsOld(kind) == kind \in {"www", "old"}

\* what a fetched page shows: the highest comment score and the post score
Pages == {[highestScore |-> 0, postScore |-> 0],
          [highestScore |-> 7, postScore |-> 100]}

\* Math.log10 on the post scores of the model
Log10(n) == CASE n = 1 -> 0 [] n = 10 -> 1 [] n = 100 -> 2 [] OTHER -> 3

\* combinedScore = highestScore + (postScore > 0 ? Math.log10(postScore) * 3 : 0)
combinedScore(page) ==
    page.highestScore + (IF page.postScore > 0 THEN Log10(page.postScore) * 3 ELSE 0)

NoResult == [url |-> 0, score |-> 0, error |-> FALSE]

\* the value extractTopCommentScore returns after a successful analysis
scoreResult(u, page) == [url |-> u, score |-> combinedScore(page), error |-> FALSE]

\* the value its outer catch returns
errorResult(u) == [url |-> u, score |-> 0, error |-> TRUE]

\* batchUrls = initialRedditUrls.slice(i, i + BATCH_SIZE), as indices
scBatch == {k \in 1..Len(scUrls) : scI < k /\ k <= scI + SCORE_BATCH_SIZE}

\* score-fetch workers that have been started and have not settled
scInFlight == {k \in DOMAIN scW : scW[k].pc \in {"primary", "alt", "delay"}}

\* the outer catch of extractTopCommentScore: how worker k settles on an error
OnScoreErrorRethrow(k) ==
    /\ scW' = [scW EXCEPT ![k] = [pc |-> "rejected", retries |-> @.retries]]
    /\ scRes' = scRes

OnScoreError(k) ==
    /\ scW' = [scW EXCEPT ![k] = [pc |-> "fulfilled", retries |-> @.retries]]
    /\ scRes' = [scRes EXCEPT ![k] = errorResult(k)]

\* the inner catch of the retry loop: retries++, and on the last attempt a
\* throw (for a 429 and for any other error alike) that the outer catch gets
scRetryCatch(k) ==
    IF scW[k].retries + 1 >= maxRetries
       THEN OnScoreError(k)
       ELSE /\ scW' = [scW EXCEPT ![k] = [pc |-> "delay", retries |-> @.retries + 1]]
            /\ scRes' = scRes

\* batchUrls in their order, as indices
BatchOrder == [j \in 1..Cardinality(scBatch) |-> scI + j]

\* Promise.all(batchUrls.map(url => extractTopCommentScore(url).catch(...))):
\* the results in the order of batchUrls, a rejected worker replaced by a zero
BatchResultsByCompletion ==
    [j \in 1..Len(scCompleted) |->
        IF scW[scCompleted[j]].pc = "rejected"
           THEN errorResult(scCompleted[j])
           ELSE scRes[scCompleted[j]]]

batchResults ==
    [j \in 1..Len(BatchOrder) |->
        IF scW[BatchOrder[j]].pc = "rejected"
           THEN errorResult(BatchOrder[j])
           ELSE scRes[BatchOrder[j]]]

RECURSIVE InsertByScore(_, _)
InsertByScore(x, s) ==
    IF s = <<>> THEN <<x>>
    ELSE IF Head(s).score < x.score THEN <<x>> \o s
    ELSE <<Head(s)>> \o InsertByScore(x, Tail(s))

RECURSIVE SortByScoreFrom(_, _)
SortByScoreFrom(s, acc) ==
    IF s = <<>> THEN acc ELSE SortByScoreFrom(Tail(s), InsertByScore(Head(s), acc))

\* the results left in the order of the urls
SortByScoreNone(s) == s

\* allScoreResults.sort((a, b) => b.score - a.score): stable, descending
SortByScore(s) == SortByScoreFrom(s, <<>>)

ScoreIdle ==
    /\ scUrls = <<>>
    /\ scPc = "idle"
    /\ scI = 0
    /\ scW = <<>>
    /\ scRes = <<>>
    /\ scCompleted = <<>>
    /\ allScoreResults = <<>>
    /\ topRedditUrls = <<>>

ScoreInit ==
    /\ scUrls \in SeqsUpTo(UrlKinds, MaxUrls)
    /\ scPc = "idle"
    /\ scI = 0
    /\ scW = [k \in 1..Len(scUrls) |-> [pc |-> "notStarted", retries |-> 0]]
    /\ scRes = [k \in 1..Len(scUrls) |-> NoResult]
    /\ scCompleted = <<>>
    /\ allScoreResults = <<>>
    /\ topRedditUrls = <<>>

\* the batch loop over initialRedditUrls is reached
scStart ==
    /\ scPc = "idle"
    /\ scPc' = "loop"
    /\ UNCHANGED <<scUrls, scI, scW, scRes, scCompleted, allScoreResults, topRedditUrls>>

\* one loop iteration begins: every url of the batch gets its worker
scStartWave ==
    /\ scPc = "loop"
    /\ scI < Len(scUrls)
    /\ scPc' = "wave"
    /\ scW' = [k \in DOMAIN scW |->
                 IF k \in scBatch THEN [pc |-> "primary", retries |-> 0] ELSE scW[k]]
    /\ scCompleted' = <<>>
    /\ UNCHANGED <<scUrls, scI, scRes, allScoreResults, topRedditUrls>>

\* axios.get answers (primary or alternate host) and the page is analysed
scFetchOk(k) ==
    /\ scW[k].pc \in {"primary", "alt"}
    /\ \E page \in Pages :
          /\ scW' = [scW EXCEPT ![k] = [pc |-> "fulfilled", retries |-> @.retries]]
          /\ scRes' = [scRes EXCEPT ![k] = scoreResult(k, page)]
    /\ scCompleted' = Append(scCompleted, k)
    /\ UNCHANGED <<scUrls, scPc, scI, allScoreResults, topRedditUrls>>

\* axios.get answers but analysing the response throws: the outer catch runs
scParseError(k) ==
    /\ scW[k].pc \in {"primary", "alt"}
    /\ OnScoreError(k)
    /\ scCompleted' = Append(scCompleted, k)
    /\ UNCHANGED <<scUrls, scPc, scI, allScoreResults, topRedditUrls>>

\* the request to the primary host fails (429, another status, a timeout)
scPrimaryFail(k) ==
    /\ scW[k].pc = "primary"
    /\ IF NormalizedIsOld(scUrls[k])
          THEN /\ scW' = [scW EXCEPT ![k] = [pc |-> "alt", retries |-> @.retries]]
               /\ scRes' = scRes
               /\ scCompleted' = scCompleted
          ELSE /\ scRetryCatch(k)
               /\ scCompleted' = IF scW[k].retries + 1 >= maxRetries
                                    THEN Append(scCompleted, k) ELSE scCompleted
    /\ UNCHANGED <<scUrls, scPc, scI, allScoreResults, topRedditUrls>>

\* the request to the alternate host fails too
scAltFail(k) ==
    /\ scW[k].pc = "alt"
    /\ scRetryCatch(k)
    /\ scCompleted' = IF scW[k].retries + 1 >= maxRetries
                         THEN Append(scCompleted, k) ELSE scCompleted
    /\ UNCHANGED <<scUrls, scPc, scI, allScoreResults, topRedditUrls>>

\* delay(2000 * retries) elapses and the next attempt is made
scRetry(k) ==
    /\ scW[k].pc = "delay"
    /\ scW' = [scW EXCEPT ![k] = [pc |-> "primary", retries |-> @.retries]]
    /\ UNCHANGED <<scUrls, scPc, scI, scRes, scCompleted, allScoreResults, topRedditUrls>>

\* Promise.all of the batch resolves: the results are appended, then
\* delay(BATCH_DELAY) unless it was the last batch
scWaveDone ==
    /\ scPc = "wave"
    /\ \A k \in scBatch : scW[k].pc \in {"fulfilled", "rejected"}
    /\ allScoreResults' = allScoreResults \o batchResults
    /\ IF scI + SCORE_BATCH_SIZE < Len(scUrls)
          THEN scPc' = "delay" /\ scI' = scI
          ELSE scPc' = "loop" /\ scI' = scI + SCORE_BATCH_SIZE
    \* the settled promises and their locals are dropped
    /\ scW' = [k \in DOMAIN scW |->
                 IF k \in scBatch THEN [pc |-> "collected", retries |-> 0] ELSE scW[k]]
    /\ scRes' = [k \in DOMAIN scRes |-> IF k \in scBatch THEN NoResult ELSE scRes[k]]
    /\ UNCHANGED <<scUrls, scCompleted, topRedditUrls>>

\* the inter-batch delay elapses
scDelayDone ==
    /\ scPc = "delay"
    /\ scPc' = "loop"
    /\ scI' = scI + SCORE_BATCH_SIZE
    /\ UNCHANGED <<scUrls, scW, scRes, scCompleted, allScoreResults, topRedditUrls>>

\* after the loop: sort (in place) by score and take the top urls
scSelect ==
    /\ scPc = "loop"
    /\ scI >= Len(scUrls)
    /\ allScoreResults' = SortByScore(allScoreResults)
    /\ topRedditUrls' = [j \in 1..Len(Take(allScoreResults', TOP_URLS)) |->
                            allScoreResults'[j].url]
    /\ scPc' = "selected"
    /\ UNCHANGED <<scUrls, scI, scW, scRes, scCompleted>>

ScoreNext ==
    \/ scStart /\ UNCHANGED notScoreVars
    \/ scStartWave /\ UNCHANGED notScoreVars
    \/ \E k \in DOMAIN scW : scFetchOk(k) /\ UNCHANGED notScoreVars
    \/ \E k \in DOMAIN scW : scParseError(k) /\ UNCHANGED notScoreVars
    \/ \E k \in DOMAIN scW : scPrimaryFail(k) /\ UNCHANGED notScoreVars
    \/ \E k \in DOMAIN scW : scAltFail(k) /\ UNCHANGED notScoreVars
    \/ \E k \in DOMAIN scW : scRetry(k) /\ UNCHANGED notScoreVars
    \/ scWaveDone /\ UNCHANGED notScoreVars
    \/ scDelayDone /\ UNCHANGED notScoreVars
    \/ scSelect /\ UNCHANGED notScoreVars

(***************************************************************************)
(* The reddit proxy route: GET fetches one page through a chain of access  *)
(* strategies.  The sources hold three definitions of GET; pxVariant says  *)
(* which one serves the request:                                           *)
(*   "route1"  app/api/reddit/route.ts, first definition,                  *)
(*   "route2"  app/api/reddit/route.ts, second definition,                 *)
(*   "part0"   the definition with per-strategy and overall timeouts.      *)
(***************************************************************************)
Variants == {"route1", "route2", "part0"}

\* the strategies of each definition, in the order of its try blocks
StrategiesDirectFirst(variant) ==
    CASE variant = "route1" -> <<"direct", "allorigins", "archive", "corsproxy">>
      [] variant = "route2" -> <<"direct", "12ft", "allorigins", "archive">>
      [] OTHER -> <<"corsproxy", "allorigins">>

Strategies(variant) ==
    CASE variant = "route1" -> <<"allorigins", "archive", "direct", "corsproxy">>
      [] variant = "route2" -> <<"12ft", "allorigins", "archive", "direct">>
      [] OTHER -> <<"allorigins", "corsproxy">>

\* the html.includes(...) checks of one strategy's sanity check
BlockMarkers(variant, strategy) ==
    CASE variant = "route1" -> {"whoa there, pardner", "network policy"}
      [] variant = "route2" -> {}
      [] variant = "part0" /\ strategy = "allorigins" -> {"access denied", "captcha"}
      [] OTHER -> {"whoa there, pardner", "network policy"}

KnownMarkers == {"whoa there, pardner", "network policy", "access denied", "captcha"}

MIN_HTML_LENGTH == 5000

BodyLengths == {0, MIN_HTML_LENGTH, MIN_HTML_LENGTH + 1}

\* a response body: its length and the block markers it contains
Bodies == [length : BodyLengths, markers : {{}} \cup {{m} : m \in KnownMarkers}]

\* what one upstream request can come to
Upstream == {[kind |-> "threw", observed |-> "network error"]}
               \cup {[kind |-> "notOk", observed |-> o] : o \in {"HTTP 403", "HTTP 429"}}
               \cup {[kind |-> "ok", observed |-> "HTTP 200", html |-> b] : b \in Bodies}

\* the sanity check of a strategy on a received body
SanityCheck(variant, strategy, html) ==
    /\ html.length > MIN_HTML_LENGTH
    /\ html.markers \cap BlockMarkers(variant, strategy) = {}

NoResponse ==
    [status |-> 0, strategy |-> "none", html |-> [length |-> 0, markers |-> {}],
     error |-> "none"]

htmlResponse(strategy, html) ==
    [status |-> 200, strategy |-> strategy, html |-> html, error |-> "none"]

\* NextResponse.json({ error: ... }, { status }): the message is a literal
errorResponse(status) ==
    [status |-> status, strategy |-> "none", html |-> [length |-> 0, markers |-> {}],
     error |-> IF status = 400 THEN "URL parameter"
               ELSE "All proxy methods failed for Reddit URL"]

\* the handler returns a response: GET resolves with it unless the overall
\* timeout has already settled the race
Respond(response) ==
    IF pxOutcome = "pending"
       THEN pxOutcome' = "resolved" /\ pxResponse' = response
       ELSE UNCHANGED <<pxOutcome, pxResponse>>

ProxyIdle ==
    /\ pxVariant = "route1"
    /\ pxUrl = "reddit"
    /\ pxPc = "idle"
    /\ pxIdx = 1
    /\ pxAttempts = <<>>
    /\ pxOutcome = "pending"
    /\ pxResponse = NoResponse

ProxyInit ==
    /\ pxVariant \in Variants
    /\ pxUrl \in {"missing", "other", "reddit"}
    /\ pxPc = "idle"
    /\ pxIdx = 1
    /\ pxAttempts = <<>>
    /\ pxOutcome = "pending"
    /\ pxResponse = NoResponse

\* GET is called: the url parameter is validated
GET ==
    /\ pxPc = "idle"
    /\ IF pxUrl = "reddit"
          THEN pxPc' = "trying" /\ UNCHANGED <<pxOutcome, pxResponse>>
          ELSE pxPc' = "responded" /\ Respond(errorResponse(400))
    /\ UNCHANGED <<pxVariant, pxUrl, pxIdx, pxAttempts>>

\* one try block: the strategy's request, then its checks
pxAttempt ==
    /\ pxPc = "trying"
    /\ pxIdx <= Len(Strategies(pxVariant))
    /\ LET strategy == Strategies(pxVariant)[pxIdx] IN
       \E up \in Upstream :
          IF up.kind = "ok" /\ SanityCheck(pxVariant, strategy, up.html)
             THEN /\ pxAttempts' = Append(pxAttempts,
                                     [strategy |-> strategy, result |-> "accepted",
                                      observed |-> up.observed])
                  /\ Respond(htmlResponse(strategy, up.html))
                  /\ pxPc' = "responded"
                  /\ pxIdx' = pxIdx
             ELSE /\ pxAttempts' = Append(pxAttempts,
                                     [strategy |-> strategy,
                                      result |-> IF up.kind = "ok" THEN "rejected" ELSE up.kind,
                                      observed |-> up.observed])
                  /\ UNCHANGED <<pxOutcome, pxResponse>>
                  /\ pxPc' = pxPc
                  /\ pxIdx' = pxIdx + 1
    /\ UNCHANGED <<pxVariant, pxUrl>>

\* every strategy failed: the 502 'All proxy methods failed' response
pxExhausted ==
    /\ pxPc = "trying"
    /\ pxIdx > Len(Strategies(pxVariant))
    /\ Respond(errorResponse(502))
    /\ pxPc' = "responded"
    /\ UNCHANGED <<pxVariant, pxUrl, pxIdx, pxAttempts>>

\* the 30 s timeoutPromise of the third definition rejects while the handler
\* is still trying: `return Promise.race([...])` is not awaited inside the
\* try block, so GET's promise rejects; the handler goes on
pxOverallTimeout ==
    /\ pxVariant = "part0"
    /\ pxPc = "trying"
    /\ pxOutcome = "pending"
    /\ pxOutcome' = "rejected"
    /\ UNCHANGED <<pxVariant, pxUrl, pxPc, pxIdx, pxAttempts, pxResponse>>

ProxyNext ==
    \/ GET /\ UNCHANGED notProxyVars
    \/ pxAttempt /\ UNCHANGED notProxyVars
    \/ pxExhausted /\ UNCHANGED notProxyVars
    \/ pxOverallTimeout /\ UNCHANGED notProxyVars

(***************************************************************************)
(* The retrying fetch: the `while (retries < maxRetries)` loop around       *)
(* axios.get, as it stands in extractTopCommentScore (rfSite = "scorer")   *)
(* and in the getDocumentsFromLinks of lib/prompts/webSearch.ts            *)
(* (rfSite = "links").  Both copies turn www.reddit.com into               *)
(* old.reddit.com before the request.                                      *)
(***************************************************************************)
RetrySites == {"scorer", "links"}

RetryUrlKinds == {"www", "old", "bare"}

\* error.response?.status of a failed request: 429, or anything else
FailureStatuses == {"429", "other"}

RETRY_BASE_MS == 2000

\* const delayTime = 2000 * retries
delayTimeFixed(retries) == RETRY_BASE_MS

delayTime(retries) == RETRY_BASE_MS * retries

requestEvent(host, attempt) == [op |-> "get", host |-> host, attempt |-> attempt, ms |-> 0]

delayEvent(attempt, ms) == [op |-> "delay", host |-> "none", attempt |-> attempt, ms |-> ms]

RetryIdle ==
    /\ rfSite = "scorer"
    /\ rfUrl = "www"
    /\ rfPc = "idle"
    /\ rfRetries = 0
    /\ rfStatus = "none"
    /\ rfLog = <<>>
    /\ rfError = "none"

RetryInit ==
    /\ rfSite \in RetrySites
    /\ rfUrl \in RetryUrlKinds
    /\ rfPc = "idle"
    /\ rfRetries = 0
    /\ rfStatus = "none"
    /\ rfLog = <<>>
    /\ rfError = "none"

\* the loop is entered: retries = 0, so the first request goes out at once
rfEnter ==
    /\ rfPc = "idle"
    /\ rfPc' = "primary"
    /\ rfLog' = Append(rfLog, requestEvent("primary", rfRetries + 1))
    /\ UNCHANGED <<rfSite, rfUrl, rfRetries, rfStatus, rfError>>

\* a request is answered: break
rfResponse ==
    /\ rfPc \in {"primary", "alternate"}
    /\ rfPc' = "done"
    /\ UNCHANGED <<rfSite, rfUrl, rfRetries, rfStatus, rfLog, rfError>>

\* catch (error) of the loop body: retries++, then throw on the last attempt,
\* else the next iteration begins with its delay
rfCatch(status) ==
    /\ rfRetries' = rfRetries + 1
    /\ rfStatus' = status
    /\ IF rfRetries + 1 >= maxRetries
          THEN /\ rfPc' = "failed"
               /\ rfError' = IF status = "429" THEN "Rate limited by Reddit" ELSE "error"
               /\ rfLog' = rfLog
          ELSE /\ rfPc' = "delay"
               /\ rfError' = rfError
               /\ rfLog' = Append(rfLog, delayEvent(rfRetries + 2, delayTime(rfRetries + 1)))

\* the request to the primary host fails: catch (firstError)
rfPrimaryFail ==
    /\ rfPc = "primary"
    /\ \E status \in FailureStatuses :
          IF NormalizedIsOld(rfUrl)
             THEN /\ rfPc' = "alternate"
                  /\ rfLog' = Append(rfLog, requestEvent("alternate", rfRetries + 1))
                  /\ UNCHANGED <<rfRetries, rfStatus, rfError>>
             ELSE rfCatch(status)
    /\ UNCHANGED <<rfSite, rfUrl>>

\* the request to the alternate host fails
rfAlternateFail ==
    /\ rfPc = "alternate"
    /\ \E status \in FailureStatuses : rfCatch(status)
    /\ UNCHANGED <<rfSite, rfUrl>>

\* the delay is over: the request of this iteration goes out
rfDelayDone ==
    /\ rfPc = "delay"
    /\ rfPc' = "primary"
    /\ rfLog' = Append(rfLog, requestEvent("primary", rfRetries + 1))
    /\ UNCHANGED <<rfSite, rfUrl, rfRetries, rfStatus, rfError>>

RetryNext ==
    \/ rfEnter /\ UNCHANGED notRetryVars
    \/ rfResponse /\ UNCHANGED notRetryVars
    \/ rfPrimaryFail /\ UNCHANGED notRetryVars
    \/ rfAlternateFail /\ UNCHANGED notRetryVars
    \/ rfDelayDone /\ UNCHANGED notRetryVars

(***************************************************************************)
(* extractRedditContent.  The markup is given by what the regular          *)
(* expressions of the function find in it: the title, the post body, and   *)
(* the comment blocks in markup order.  A comment block has the class      *)
(* tokens that follow its id-t1_ token, and, when commentContentRegex      *)
(* matches it, an author, a text and possibly a score.  The author of the  *)
(* model is the block's position in the markup.                            *)
(***************************************************************************)
MAX_COMMENTS == 10

ClassLists == {<<"noncollapsed", "comment">>, <<"collapsed", "comment">>}

\* the text htmlToText gives for the comment body: " " is blank
CommentTexts == {"t", " "}

\* what scoreRegex captures; "none" when it does not match
ScoreStrings == {"none", "5", "12"}

CommentBlocks ==
    [classes : ClassLists, parseable : {TRUE}, text : CommentTexts, score : ScoreStrings]
      \cup [classes : {<<"collapsed", "comment">>}, parseable : {FALSE},
            text : {" "}, score : {"none"}]

\* markups longer than MAX_COMMENTS: ten blocks of one kind, then one of another
LongBlockLists ==
    {[i \in 1..(MAX_COMMENTS + 1) |-> IF i <= MAX_COMMENTS THEN b1 ELSE b2] :
        b1 \in {b \in CommentBlocks : b.parseable /\ b.text = "t" /\ b.score = "5"},
        b2 \in {b \in CommentBlocks : b.parseable /\ b.text = "t" /\ b.score = "12"}}

Markups ==
    [title : {"none", "T : sub"}, post : {"", "body"},
     blocks : SeqsUpTo(CommentBlocks, MaxComments) \cup LongBlockLists]

\* titleMatch[1].replace(/ : .*$/, ''), or the default title
extractTitle(title) ==
    CASE title = "none" -> "Reddit Discussion"
      [] title = "T : sub" -> "T"
      [] OTHER -> title

\* String.prototype.includes on one class token
IsSubstring(marker, token) ==
    \/ token = marker
    \/ marker = "collapsed" /\ token = "noncollapsed"

\* commentClasses.includes(marker): the class string holds the marker somewhere
includes(commentClasses, marker) ==
    \E i \in 1..Len(commentClasses) : IsSubstring(marker, commentClasses[i])

\* group 1 of fullCommentRegex: in `id-t1_[^"]*\s*([^"]*)"` the greedy [^"]*
\* takes every token up to the closing quote and the group gets what is left
regexClassGroup(classes) ==
    LET greedy == Len(classes)
    IN  SubSeq(classes, greedy + 1, Len(classes))

\* const isVisible = commentClasses.includes('noncollapsed')
\*                     && !commentClasses.includes('collapsed')
isVisible(commentClasses) ==
    includes(commentClasses, "noncollapsed") /\ ~includes(commentClasses, "collapsed")

\* String.prototype.trim on the texts of the model
trim(text) == IF text = " " THEN "" ELSE text

\* parseInt(score, 10) on the score strings of the model
parseInt(score) ==
    CASE score = "5" -> 5
      [] score = "12" -> 12
      [] OTHER -> 0

\* the entry pushed onto allComments for block i of the markup
commentEntry(block, i) ==
    [author |-> i, text |-> trim(block.text), score |-> block.score,
     scoreNum |-> IF block.score # "none" THEN parseInt(block.score) ELSE 0,
     visible |-> isVisible(regexClassGroup(block.classes))]

\* the while loop over fullCommentRegex.exec: the parseable, non-blank comments
collectComments(blocks) ==
    LET entries == [i \in 1..Len(blocks) |-> commentEntry(blocks[i], i)]
        kept == SelectSeq([i \in 1..Len(blocks) |-> i],
                          LAMBDA i : blocks[i].parseable /\ Len(entries[i].text) > 0)
    IN  [j \in 1..Len(kept) |-> entries[kept[j]]]

RECURSIVE InsertByScoreNumFirst(_, _)
InsertByScoreNumFirst(x, sorted) ==
    IF sorted = <<>> THEN <<x>>
    ELSE IF Head(sorted).scoreNum <= x.scoreNum THEN <<x>> \o sorted
    ELSE <<Head(sorted)>> \o InsertByScoreNumFirst(x, Tail(sorted))

RECURSIVE InsertByScoreNum(_, _)
\* x goes behind every element whose scoreNum is not below its own
InsertByScoreNum(x, sorted) ==
    IF sorted = <<>> THEN <<x>>
    ELSE IF Head(sorted).scoreNum < x.scoreNum THEN <<x>> \o sorted
    ELSE <<Head(sorted)>> \o InsertByScoreNum(x, Tail(sorted))

RECURSIVE SortByScoreNumFrom(_, _)
SortByScoreNumFrom(rest, sorted) ==
    IF rest = <<>> THEN sorted
    ELSE SortByScoreNumFrom(Tail(rest), InsertByScoreNum(Head(rest), sorted))

\* allComments.sort((a, b) => b.scoreNum - a.scoreNum): stable, descending
SortByScoreNum(comments) == SortByScoreNumFrom(comments, <<>>)

\* .map(({ author, text, score }) => ({ author, text, score }))
outputComment(entry) == [author |-> entry.author, text |-> entry.text, score |-> entry.score]

\* success: postContent.length > 0 || comments.length > 0
extractSuccessPostOnly(postContent, comments) == Len(postContent) > 0

extractSuccess(postContent, comments) == Len(postContent) > 0 \/ Len(comments) > 0

\* the value the catch block returns
extractFailure ==
    [title |-> "Reddit Discussion", postContent |-> "", comments |-> <<>>, success |-> FALSE]

\* the try block of extractRedditContent
extractRedditContent(htmlContent) ==
    LET allComments == SortByScoreNum(collectComments(htmlContent.blocks))
        visibleComments == SelectSeq(allComments, LAMBDA c : c.visible)
        outputComments == Take(visibleComments, MAX_COMMENTS)
        chosen == IF Len(outputComments) = 0 /\ Len(allComments) > 0
                     THEN Take(allComments, MAX_COMMENTS)
                     ELSE outputComments
        comments == [j \in 1..Len(chosen) |-> outputComment(chosen[j])]
    IN  [title |-> extractTitle(htmlContent.title),
         postContent |-> htmlContent.post,
         comments |-> comments,
         success |-> extractSuccess(htmlContent.post, comments)]

ExtractIdle ==
    /\ exHtml = [title |-> "none", post |-> "", blocks |-> <<>>]
    /\ exPc = "idle"
    /\ exOut = extractFailure

ExtractInit ==
    /\ exHtml \in Markups
    /\ exPc = "idle"
    /\ exOut = extractFailure

\* the call returns what its try block computes
extractReturn ==
    /\ exPc = "idle"
    /\ exOut' = extractRedditContent(exHtml)
    /\ exPc' = "returned"
    /\ UNCHANGED exHtml

\* something inside the try block throws: the catch block's value is returned
extractCatch ==
    /\ exPc = "idle"
    /\ exOut' = extractFailure
    /\ exPc' = "caught"
    /\ UNCHANGED exHtml

ExtractNext ==
    \/ extractReturn /\ UNCHANGED notExtractVars
    \/ extractCatch /\ UNCHANGED notExtractVars

(***************************************************************************)
(* MetaSearchAgent.processDocs.  A document is given by its metadata and   *)
(* by the lengths that the truncation works with: either the length of a   *)
(* pageContent without the two section headers, or the lengths of the      *)
(* title section (before '## Original Post'), of the post section (up to   *)
(* '## Comments') and of the comments section, with the positions of the   *)
(* blank lines ('\n\n') inside the comments section.  A document is        *)
(* identified by its rank, its position in docs.                           *)
(***************************************************************************)
MAX_DOCUMENTS == 8
MAX_LENGTH_REDDIT == 6000
MAX_LENGTH_OTHER == 2000
MIN_COMMENTS_SPACE == 500

\* lengths of the three notices
CONTENT_NOTICE_LENGTH == 29
ADDITIONAL_NOTICE_LENGTH == 39
OMITTED_NOTICE_LENGTH == 55

plainContent(len) ==
    [sections |-> FALSE, plainLen |-> len, titleLen |-> 0, postLen |-> 0,
     commentsLen |-> 0, breaks |-> {}]

sectionedContent(postLen, commentsLen, breaks) ==
    [sections |-> TRUE, plainLen |-> 0, titleLen |-> 10, postLen |-> postLen,
     commentsLen |-> commentsLen, breaks |-> breaks]

\* content.length
contentLength(content) ==
    IF content.sections
       THEN content.titleLen + content.postLen + content.commentsLen
       ELSE content.plainLen

ContextDocKinds ==
    {[title |-> t, isReddit |-> FALSE, redditUrl |-> FALSE, content |-> plainContent(100)] :
        t \in {"T", ""}}
    \cup {[title |-> "T", isReddit |-> FALSE, redditUrl |-> FALSE, content |-> plainContent(n)] :
        n \in {2000, 2001, 9000}}
    \cup {[title |-> "T", isReddit |-> FALSE, redditUrl |-> TRUE, content |-> plainContent(n)] :
        n \in {6000, 6001}}
    \cup {[title |-> "T", isReddit |-> TRUE, redditUrl |-> TRUE, content |-> plainContent(n)] :
        n \in {100, 9000}}
    \cup {[title |-> "T", isReddit |-> TRUE, redditUrl |-> TRUE,
           content |-> sectionedContent(postLen, c[1], c[2])] :
        postLen \in {200, 5600, 7000},
        c \in {<<300, {11, 150}>>, <<7000, {11, 3000, 5000, 6500}>>, <<7000, {}>>}}
    \* longer than the cap by its title section only
    \cup {[title |-> "T", isReddit |-> TRUE, redditUrl |-> TRUE,
           content |-> sectionedContent(200, 5795, {11, 3000})]}

\* lists longer than MAX_DOCUMENTS: nine documents of one kind
LongDocLists ==
    {[i \in 1..(MAX_DOCUMENTS + 1) |-> d] :
        d \in {k \in ContextDocKinds : contentLength(k.content) \in {100, 9000}}}

ContextDocLists == SeqsUpTo(ContextDocKinds, MaxContextDocs) \cup LongDocLists

\* docs.slice(0, MAX_DOCUMENTS) when docs.length > MAX_DOCUMENTS
limitDocsNone(inputDocs) == inputDocs

limitDocs(inputDocs) ==
    IF Len(inputDocs) > MAX_DOCUMENTS THEN Take(inputDocs, MAX_DOCUMENTS) ELSE inputDocs

\* doc.metadata.isReddit || doc.metadata.url.includes('reddit.com')
isRedditSource(doc) == doc.isReddit \/ doc.redditUrl

maxLength(doc) == IF isRedditSource(doc) THEN MAX_LENGTH_REDDIT ELSE MAX_LENGTH_OTHER

\* a search that finds no blank line
lastIndexOfNone(breaks, position) == -1

\* commentsSection.lastIndexOf('\n\n', position): -1 when there is none
lastIndexOf(breaks, position) ==
    LET found == {b \in breaks : b <= position}
    IN  IF found = {} THEN -1 ELSE CHOOSE b \in found : \A c \in found : c <= b

\* beginningPortion + notice + endingPortion
standardTruncation(doc) ==
    [contentLen |-> (maxLength(doc) * 3) \div 4 + CONTENT_NOTICE_LENGTH
                       + maxLength(doc) \div 4,
     notice |-> "content truncated", commentsKept |-> 0]

\* titleSection + postSection + commentsSection
sectionTruncation(doc) ==
    LET c == doc.content
        remainingSpace == maxLength(doc) - c.postLen
        cutoffPoint == lastIndexOf(c.breaks, remainingSpace)
        kept == IF cutoffPoint # -1 THEN cutoffPoint ELSE remainingSpace
    IN  IF remainingSpace > MIN_COMMENTS_SPACE
           THEN IF c.commentsLen > remainingSpace
                   THEN [contentLen |-> c.titleLen + c.postLen + kept
                                           + ADDITIONAL_NOTICE_LENGTH,
                         notice |-> "additional comments truncated",
                         commentsKept |-> kept]
                   ELSE [contentLen |-> c.titleLen + c.postLen + c.commentsLen,
                         notice |-> "none", commentsKept |-> c.commentsLen]
           ELSE [contentLen |-> c.titleLen + c.postLen + OMITTED_NOTICE_LENGTH,
                 notice |-> "comments omitted", commentsKept |-> 0]

\* the content of one block: doc.pageContent, truncated when it is too long
truncate(doc) ==
    IF contentLength(doc.content) > maxLength(doc)
       THEN IF isRedditSource(doc) /\ doc.content.sections
               THEN sectionTruncation(doc)
               ELSE standardTruncation(doc)
       ELSE [contentLen |-> contentLength(doc.content), notice |-> "none",
             commentsKept |-> doc.content.commentsLen]

\* the block of docs[index]: `${index + 1}. ${title} (Source: ${url})${sourceType}`
processedDoc(doc, index) ==
    [number |-> index, source |-> index,
     title |-> IF doc.title = "" THEN "Untitled" ELSE doc.title,
     sourceType |-> IF isRedditSource(doc) THEN " [REDDIT DISCUSSION]" ELSE "",
     content |-> truncate(doc)]

\* header + processedDocs
processDocs(inputDocs) ==
    LET limited == limitDocs(inputDocs)
    IN  [count |-> Len(limited),
         blocks |-> [i \in 1..Len(limited) |-> processedDoc(limited[i], i)]]

ProcIdle ==
    /\ pdDocs = <<>>
    /\ pdPc = "idle"
    /\ pdOut = [count |-> 0, blocks |-> <<>>]

ProcInit ==
    /\ pdDocs \in ContextDocLists
    /\ pdPc = "idle"
    /\ pdOut = [count |-> 0, blocks |-> <<>>]

\* one call of processDocs on the drawn documents
processDocsCall ==
    /\ pdPc = "idle"
    /\ pdOut' = processDocs(pdDocs)
    /\ pdPc' = "returned"
    /\ UNCHANGED pdDocs

ProcNext ==
    \/ processDocsCall /\ UNCHANGED notProcVars

(***************************************************************************)
(* The search branch of createSearchRetrieverChain (no links in the        *)
(* rewritten query).  A search result is identified by its position in     *)
(* res.results; its kind is that of LinkKinds: "post" a reddit post url,   *)
(* "nonpost" another reddit.com url, "other" a url of another site.  What  *)
(* the network does for each url is drawn beforehand: smScoreEnv for the   *)
(* score-fetch of a url, smFetchEnv for its full fetch.                    *)
(***************************************************************************)
MAX_INITIAL_URLS == 20
USABLE_LENGTH == 100
MIN_SUCCESSFUL == 2

\* 'Failed to retrieve content from the link: '.length
FAILED_PREFIX_LENGTH == 42
\* the shortest normalized reddit post url: 'http://old.reddit.com/comments/'
MIN_LINK_LENGTH == 31

\* res.results.filter(result => result.url.includes('reddit.com'))
redditResults(results) ==
    SelectSeq([i \in 1..Len(results) |-> i], LAMBDA i : results[i] # "other")

\* every reddit result is a candidate
initialRedditUrlsAll(results) == redditResults(results)

\* redditResults.slice(0, 20).map(result => result.url)
initialRedditUrls(results) == Take(redditResults(results), MAX_INITIAL_URLS)

\* what a score-fetch comes to: an error, or a page that is analysed
ScoreOutcomes ==
    {[failed |-> TRUE, page |-> [highestScore |-> 0, postScore |-> 0]]}
      \cup {[failed |-> FALSE, page |-> p] : p \in Pages}

\* extractTopCommentScore(url).catch(...): the value the batch gets for url u
extractTopCommentScore(u, outcome) ==
    IF outcome.failed THEN errorResult(u) ELSE scoreResult(u, outcome.page)

\* the batch loop: allScoreResults, the batches' results in the order of the urls
scoreLoop(urls, env) ==
    [j \in 1..Len(urls) |-> extractTopCommentScore(urls[j], env[urls[j]])]

\* sortedResults.slice(0, 10).map(result => result.url)
selectTop(sortedResults) ==
    [j \in 1..Len(Take(sortedResults, TOP_URLS)) |-> sortedResults[j].url]

\* what the full fetch of a link comes to: a discussion extracted to more than
\* 100 characters or to 100, an extraction without success, a rejected fetch,
\* the 20 s timeout
FetchOutcomes == {"long", "short", "noContent", "failed", "timeout"}

\* what the Promise.all element of link u pushes on docs
linkDocuments(u, outcome) ==
    CASE outcome \in {"long", "short"} -> <<redditDocument(u)>>
      [] outcome = "noContent" -> <<>>
      [] outcome = "timeout" -> <<failedDocument(u, "timeout")>>
      [] OTHER -> <<failedDocument(u, "proxy")>>

\* the order in which the elements of the batches settle: the order of the
\* links or, reversed, the opposite order inside every batch
settleOrder(s, reversed) ==
    [k \in 1..Len(s) |->
        IF ~reversed THEN s[k]
        ELSE LET first == ((k - 1) \div LINK_BATCH_SIZE) * LINK_BATCH_SIZE + 1
                 last == IF first + LINK_BATCH_SIZE - 1 < Len(s)
                            THEN first + LINK_BATCH_SIZE - 1 ELSE Len(s)
             IN  s[first + last - k]]

RECURSIVE Flatten(_)
Flatten(ss) == IF ss = <<>> THEN <<>> ELSE Head(ss) \o Flatten(Tail(ss))

\* getDocumentsFromLinks({ links }) for links given as results of the search
fetchedDocuments(results, links, env, reversed) ==
    LET kinds == [j \in 1..Len(links) |-> results[links[j]]]
        toProcess == settleOrder(redditLinksToProcess(kinds), reversed)
        others == nonRedditLinks(kinds)
    IN  Flatten([k \in 1..Len(toProcess) |->
                    linkDocuments(links[toProcess[k]], env[links[toProcess[k]]])])
          \o [k \in 1..Len(others) |-> nonRedditDocument(links[others[k]])]

\* message.length of the error a placeholder reports
messageLength(message) ==
    CASE message = "timeout" -> 32 + MIN_LINK_LENGTH
      [] message = "proxy" -> 35
      [] message = "insufficient" -> 40
      [] OTHER -> 46

\* doc.pageContent.length of a fetched document
pageContentLength(doc, env) ==
    CASE doc.title = "reddit" ->
            IF env[doc.url] = "long" THEN USABLE_LENGTH + 1 ELSE USABLE_LENGTH
      [] doc.title = "Failed to retrieve content" ->
            FAILED_PREFIX_LENGTH + messageLength(doc.error)
      [] OTHER -> 81 + MIN_LINK_LENGTH

\* every fetched document counts
isSuccessfulAny(doc, env) == TRUE

\* doc.pageContent && doc.pageContent.length > 100
isSuccessful(doc, env) == pageContentLength(doc, env) > USABLE_LENGTH

\* the snippet document built from search result u
snippetDocument(u) == [url |-> u, title |-> "snippet", error |-> "none"]

\* the document built from search result u in the branch without top urls
resultDocument(u) == [url |-> u, title |-> "result", error |-> "none"]

\* lines 1057-1086: the fetched documents, or the fallback to the snippets
withFallback(results, fetched, env) ==
    LET successfulDocuments == SelectSeq(fetched, LAMBDA doc : isSuccessful(doc, env))
        snippetDocuments == [j \in 1..Len(redditResults(results)) |->
                                 snippetDocument(redditResults(results)[j])]
    IN  IF Len(successfulDocuments) < MIN_SUCCESSFUL
           THEN successfulDocuments \o snippetDocuments
           ELSE fetched

\* result lists longer than the caps: 22 posts; 24 results of which every
\* fourth is from another site and six are reddit urls that are not posts
LongResultLists ==
    {[i \in 1..(MAX_INITIAL_URLS + 2) |-> "post"],
     [i \in 1..(MAX_INITIAL_URLS + 4) |->
         CASE i % 4 = 0 -> "other" [] i % 4 = 2 -> "nonpost" [] OTHER -> "post"]}

ResultLists == SeqsUpTo(LinkKinds, MaxResults) \cup LongResultLists

\* for the short lists every environment; for the long ones those that
\* alternate between two outcomes
EnvsOver(n, outcomes) ==
    IF n <= MaxResults + 1 THEN [1..n -> outcomes]
    ELSE {[i \in 1..n |-> IF i % 2 = 0 THEN a ELSE b] : a \in outcomes, b \in outcomes}

SearchIdle ==
    /\ smResults = <<>>
    /\ smScoreEnv = <<>>
    /\ smFetchEnv = <<>>
    /\ smPc = "idle"
    /\ smAllScoreResults = <<>>
    /\ smTopRedditUrls = <<>>
    /\ documents = <<>>

SearchInit ==
    /\ smResults \in ResultLists
    /\ smScoreEnv \in EnvsOver(Len(smResults), ScoreOutcomes)
    /\ smFetchEnv \in EnvsOver(Len(smResults), FetchOutcomes)
    /\ smPc = "idle"
    /\ smAllScoreResults = <<>>
    /\ smTopRedditUrls = <<>>
    /\ documents = <<>>

\* searchGoogle answers and no result is a reddit url: the block under
\* `if (initialRedditUrls.length > 0)` is skipped and documents stays empty
smNoCandidates ==
    /\ smPc = "idle"
    /\ initialRedditUrls(smResults) = <<>>
    /\ smPc' = "returned"
    /\ UNCHANGED <<smResults, smScoreEnv, smFetchEnv, smAllScoreResults,
                   smTopRedditUrls, documents>>

\* searchGoogle answers with reddit urls among the results: the batch loop
\* scores the candidates
smScore ==
    /\ smPc = "idle"
    /\ initialRedditUrls(smResults) # <<>>
    /\ smAllScoreResults' = scoreLoop(initialRedditUrls(smResults), smScoreEnv)
    /\ smPc' = "scored"
    /\ UNCHANGED <<smResults, smScoreEnv, smFetchEnv, smTopRedditUrls, documents>>

\* the sort (in place) by score and the selection of the top urls
smSelect ==
    /\ smPc = "scored"
    /\ smAllScoreResults' = SortByScore(smAllScoreResults)
    /\ smTopRedditUrls' = selectTop(smAllScoreResults')
    /\ smPc' = "selected"
    /\ UNCHANGED <<smResults, smScoreEnv, smFetchEnv, documents>>

\* the full fetch of the top urls; without top urls one document per result
smFetch ==
    /\ smPc = "selected"
    /\ \E reversed \in BOOLEAN :
          documents' =
              IF Len(smTopRedditUrls) > 0
                 THEN fetchedDocuments(smResults, smTopRedditUrls, smFetchEnv, reversed)
                 ELSE [i \in 1..Len(smResults) |-> resultDocument(i)]
    /\ smPc' = "fetched"
    /\ UNCHANGED <<smResults, smScoreEnv, smFetchEnv, smAllScoreResults, smTopRedditUrls>>

\* the check of the fetched documents, the fallback, and the return
smReturn ==
    /\ smPc = "fetched"
    /\ documents' = withFallback(smResults, documents, smFetchEnv)
    /\ smPc' = "returned"
    /\ UNCHANGED <<smResults, smScoreEnv, smFetchEnv, smAllScoreResults, smTopRedditUrls>>

SearchNext ==
    \/ smNoCandidates /\ UNCHANGED notSearchVars
    \/ smScore /\ UNCHANGED notSearchVars
    \/ smSelect /\ UNCHANGED notSearchVars
    \/ smFetch /\ UNCHANGED notSearchVars
    \/ smReturn /\ UNCHANGED notSearchVars

(***************************************************************************)
(* The link branch of createSearchRetrieverChain: the documents that       *)
(* getDocumentsFromLinks returned are grouped by url and every group is    *)
(* summarized by one llm call.  A fetched document is [url, title]; its    *)
(* pageContent is identified by its position in linkDocs, and the          *)
(* pageContent of a group is the sequence of the contents joined in it.    *)
(***************************************************************************)
MAX_GROUP_DOCS == 10

GroupUrls == {"u1", "u2"}
GroupTitles == {"t1", "t2"}

\* docGroups.findIndex(d => d.metadata.url === url && d.metadata.totalDocs < 10)
\* without the test of totalDocs
findIndexAnySize(groups, url) ==
    LET found == {i \in 1..Len(groups) : groups[i].url = url}
    IN  IF found = {} THEN 0 ELSE CHOOSE i \in found : \A j \in found : i <= j

\* docGroups.findIndex(d => d.metadata.url === url && d.metadata.totalDocs < 10),
\* 0 for the -1 of no match
findIndex(groups, url) ==
    LET found == {i \in 1..Len(groups) :
                     groups[i].url = url /\ groups[i].totalDocs < MAX_GROUP_DOCS}
    IN  IF found = {} THEN 0 ELSE CHOOSE i \in found : \A j \in found : i <= j

\* the body of linkDocs.map for the document at position id
addToGroups(groups, doc, id) ==
    LET pushed == IF findIndex(groups, doc.url) = 0
                     THEN Append(groups, [url |-> doc.url, title |-> doc.title,
                                          pageContent |-> <<id>>, totalDocs |-> 1])
                     ELSE groups
        docIndex == findIndex(pushed, doc.url)
    IN  IF docIndex # 0
           THEN [pushed EXCEPT ![docIndex].pageContent = Append(@, id),
                               ![docIndex].totalDocs = @ + 1]
           ELSE pushed

RECURSIVE groupFrom(_, _, _)
groupFrom(linkDocs, id, groups) ==
    IF id > Len(linkDocs) THEN groups
    ELSE groupFrom(linkDocs, id + 1, addToGroups(groups, linkDocs[id], id))

\* docGroups after linkDocs.map
groupDocs(linkDocs) == groupFrom(linkDocs, 1, <<>>)

\* the Document built from the summary of group k
summaryDocument(groups, k) ==
    [url |-> groups[k].url, title |-> groups[k].title, summaryOf |-> k]

\* more documents of one url than a group takes; the same with a document of
\* another url among them
LongLinkDocLists ==
    {[i \in 1..(MAX_GROUP_DOCS + 2) |-> [url |-> "u1", title |-> "t1"]],
     [i \in 1..(MAX_GROUP_DOCS + 2) |->
         IF i = 3 THEN [url |-> "u2", title |-> "t2"] ELSE [url |-> "u1", title |-> "t1"]]}

LinkDocLists ==
    SeqsUpTo([url : GroupUrls, title : GroupTitles], MaxLinkDocs) \cup LongLinkDocLists

GroupIdle ==
    /\ lgLinkDocs = <<>>
    /\ lgPc = "idle"
    /\ docGroups = <<>>
    /\ lgInvoke = <<>>
    /\ lgDocs = <<>>

GroupInit ==
    /\ lgLinkDocs \in LinkDocLists
    /\ lgPc = "idle"
    /\ docGroups = <<>>
    /\ lgInvoke = <<>>
    /\ lgDocs = <<>>

\* linkDocs.map builds docGroups; Promise.all starts one llm.invoke per group
lgGroup ==
    /\ lgPc = "idle"
    /\ docGroups' = groupDocs(lgLinkDocs)
    /\ lgInvoke' = [k \in 1..Len(docGroups') |-> "pending"]
    /\ lgPc' = "summarizing"
    /\ UNCHANGED <<lgLinkDocs, lgDocs>>

\* llm.invoke for group k resolves: its document is pushed on docs
lgSummarized(k) ==
    /\ lgPc \in {"summarizing", "rejected"}
    /\ lgInvoke[k] = "pending"
    /\ lgInvoke' = [lgInvoke EXCEPT ![k] = "resolved"]
    /\ lgDocs' = Append(lgDocs, summaryDocument(docGroups, k))
    /\ UNCHANGED <<lgLinkDocs, lgPc, docGroups>>

\* llm.invoke for group k rejects: Promise.all rejects and with it the chain
lgSummarizeFail(k) ==
    /\ lgPc \in {"summarizing", "rejected"}
    /\ lgInvoke[k] = "pending"
    /\ lgInvoke' = [lgInvoke EXCEPT ![k] = "rejected"]
    /\ lgPc' = "rejected"
    /\ UNCHANGED <<lgLinkDocs, docGroups, lgDocs>>

\* Promise.all resolves: { query: question, docs: docs } is returned
lgReturn ==
    /\ lgPc = "summarizing"
    /\ \A k \in DOMAIN lgInvoke : lgInvoke[k] = "resolved"
    /\ lgPc' = "returned"
    /\ UNCHANGED <<lgLinkDocs, docGroups, lgInvoke, lgDocs>>

GroupNext ==
    \/ lgGroup /\ UNCHANGED notGroupVars
    \/ \E k \in DOMAIN lgInvoke : lgSummarized(k) /\ UNCHANGED notGroupVars
    \/ \E k \in DOMAIN lgInvoke : lgSummarizeFail(k) /\ UNCHANGED notGroupVars
    \/ lgReturn /\ UNCHANGED notGroupVars

(***************************************************************************)
(* createAnsweringChain: the context of one run.  The retriever chain      *)
(* gives a query and documents, rerankDocs ranks them with the uploaded    *)
(* files, processDocs assembles the context and the generator is invoked   *)
(* with it.  The events that handleStream emits are appended in the order  *)
(* in which the chain produces their StreamEvents.                         *)
(***************************************************************************)
Temperatures == {0, 7}

RetrievalCalls == {"searchGoogle", "extractTopCommentScore", "getDocumentsFromLinks"}

\* a ranked document as processDocs reads it
asContextDoc(doc) ==
    [title |-> doc.title, isReddit |-> FALSE, redditUrl |-> FALSE,
     content |-> plainContent(100)]

\* the context of a run that always holds one source
assembleOneAtLeast(sortedDocs) ==
    processDocs(IF sortedDocs = <<>>
                   THEN <<asContextDoc([title |-> "web"])>>
                   ELSE [i \in 1..Len(sortedDocs) |-> asContextDoc(sortedDocs[i])])

\* .pipe(this.processDocs) on the output of the FinalSourceRetriever lambda
assemble(sortedDocs) ==
    processDocs([i \in 1..Len(sortedDocs) |-> asContextDoc(sortedDocs[i])])

\* how many fetchPromises can still be running when getDocumentsFromLinks
\* returns: those of links whose timeout fired, each with a placeholder
stillRunning(returned) ==
    0..(IF Len(returned) < MAX_REDDIT_LINKS THEN Len(returned) ELSE MAX_REDDIT_LINKS)

ChainIdle ==
    /\ acSearchWeb = TRUE
    /\ acHistory = <<>>
    /\ acFiles = <<>>
    /\ acMode = "speed"
    /\ acRerank = TRUE
    /\ llmTemperature = 0
    /\ acPc = "Idle"
    /\ acRewritten = "none"
    /\ acQuery = "q"
    /\ acRetrieved = <<>>
    /\ acInFlight = 0
    /\ acCalls = {}
    /\ acSorted = <<>>
    /\ acContext = [count |-> 0, blocks |-> <<>>]
    /\ acEmitted = <<>>
    /\ acFailure = "none"

ChainInit ==
    /\ acSearchWeb \in BOOLEAN
    /\ acHistory = <<"human", "ai">>
    /\ acFiles \in FileDataLists
    /\ acMode \in Modes
    /\ acRerank \in BOOLEAN
    /\ llmTemperature \in Temperatures
    /\ acPc = "Idle"
    /\ acRewritten = "none"
    /\ acQuery = "q"
    /\ acRetrieved = <<>>
    /\ acInFlight = 0
    /\ acCalls = {}
    /\ acSorted = <<>>
    /\ acContext = [count |-> 0, blocks |-> <<>>]
    /\ acEmitted = <<>>
    /\ acFailure = "none"

\* config.searchWeb is off: docs stays null and the message is the query
acNoSearchWeb ==
    /\ acPc = "Idle"
    /\ ~acSearchWeb
    /\ acPc' = "Reranking"
    /\ UNCHANGED <<acInFlight, acSearchWeb, acHistory, acFiles, acMode, acRerank, llmTemperature,
                   acRewritten, acQuery, acRetrieved, acCalls, acSorted, acContext,
                   acEmitted, acFailure>>

\* createSearchRetrieverChain(llm) sets the temperature of llm; the rewrite
\* gives 'not_needed': { query: '', docs: [] }
acNotNeeded ==
    /\ acPc = "Idle"
    /\ acSearchWeb
    /\ llmTemperature' = 0
    /\ acRewritten' = "not_needed"
    /\ acQuery' = ""
    /\ acRetrieved' = <<>>
    /\ acCalls' = acCalls \cup {"rewrite"}
    /\ acPc' = "Reranking"
    /\ UNCHANGED <<acInFlight, acSearchWeb, acHistory, acFiles, acMode, acRerank, acSorted,
                   acContext, acEmitted, acFailure>>

\* the rewrite gives links: they are fetched and every group is summarized
acLinkMode ==
    /\ acPc = "Idle"
    /\ acSearchWeb
    /\ llmTemperature' = 0
    /\ acRewritten' = "links"
    /\ \E question \in Queries, linkDocs \in WebDocLists :
          /\ acQuery' = question
          /\ acRetrieved' = linkDocs
          /\ acInFlight' \in stillRunning(linkDocs)
          /\ acCalls' = acCalls \cup {"rewrite", "getDocumentsFromLinks"}
                          \cup (IF linkDocs # <<>> THEN {"summarize"} ELSE {})
    /\ acPc' = "Reranking"
    /\ UNCHANGED <<acSearchWeb, acHistory, acFiles, acMode, acRerank, acSorted,
                   acContext, acEmitted, acFailure>>

\* the rewrite gives a question: the search, and with reddit urls among its
\* results the scoring and the full fetch; without them documents stays empty
acSearchMode ==
    /\ acPc = "Idle"
    /\ acSearchWeb
    /\ llmTemperature' = 0
    /\ acRewritten' = "search"
    /\ \E question \in Queries, found \in WebDocLists :
          /\ acQuery' = question
          /\ acRetrieved' = found
          /\ acInFlight' \in stillRunning(found)
          /\ acCalls' = acCalls \cup {"rewrite", "searchGoogle"}
                          \cup (IF found # <<>>
                                   THEN {"extractTopCommentScore", "getDocumentsFromLinks"}
                                   ELSE {})
    /\ acPc' = "Reranking"
    /\ UNCHANGED <<acSearchWeb, acHistory, acFiles, acMode, acRerank, acSorted,
                   acContext, acEmitted, acFailure>>

\* the rewrite call, the search or a summarization rejects
acRetrieveFail ==
    /\ acPc = "Idle"
    /\ acSearchWeb
    /\ llmTemperature' = 0
    /\ acCalls' = acCalls \cup {"rewrite"}
    /\ acFailure' = "retrieval"
    /\ acPc' = "Failed"
    /\ UNCHANGED <<acInFlight, acSearchWeb, acHistory, acFiles, acMode, acRerank, acRewritten,
                   acQuery, acRetrieved, acSorted, acContext, acEmitted>>

\* rerankDocs returns sortedDocs and the FinalSourceRetriever lambda ends
acRerankDone ==
    /\ acPc = "Reranking"
    /\ acSorted' = rerankDocs(acQuery, acRetrieved, acFiles, acMode, acRerank)
    /\ acCalls' = acCalls \cup embeddingCalls(acQuery, acRetrieved, acFiles, acMode, acRerank)
    /\ acEmitted' = acEmitted \o EmitFor(Ev("on_chain_end", "FinalSourceRetriever"))
    /\ acPc' = "Assembling"
    /\ UNCHANGED <<acInFlight, acSearchWeb, acHistory, acFiles, acMode, acRerank, llmTemperature,
                   acRewritten, acQuery, acRetrieved, acContext, acFailure>>

\* a call to the embedding service made by rerankDocs rejects
acRerankFail ==
    /\ acPc = "Reranking"
    /\ embeddingCalls(acQuery, acRetrieved, acFiles, acMode, acRerank) # {}
    /\ acCalls' = acCalls \cup embeddingCalls(acQuery, acRetrieved, acFiles, acMode, acRerank)
    /\ acFailure' = "embedding"
    /\ acPc' = "Failed"
    /\ UNCHANGED <<acInFlight, acSearchWeb, acHistory, acFiles, acMode, acRerank, llmTemperature,
                   acRewritten, acQuery, acRetrieved, acSorted, acContext, acEmitted>>

\* processDocs builds the context and the generator is invoked with it
acAssemble ==
    /\ acPc = "Assembling"
    /\ acContext' = assemble(acSorted)
    /\ acCalls' = acCalls \cup {"generate"}
    /\ acPc' = "Generating"
    /\ UNCHANGED <<acInFlight, acSearchWeb, acHistory, acFiles, acMode, acRerank, llmTemperature,
                   acRewritten, acQuery, acRetrieved, acSorted, acEmitted, acFailure>>

\* the generator finishes
acGenerateEnd ==
    /\ acPc = "Generating"
    /\ acEmitted' = acEmitted \o EmitFor(Ev("on_chain_end", "FinalResponseGenerator"))
    /\ acPc' = "Done"
    /\ UNCHANGED <<acInFlight, acSearchWeb, acHistory, acFiles, acMode, acRerank, llmTemperature,
                   acRewritten, acQuery, acRetrieved, acCalls, acSorted, acContext,
                   acFailure>>

\* the generation call rejects
acGenerateFail ==
    /\ acPc = "Generating"
    /\ acFailure' = "generation"
    /\ acPc' = "Failed"
    /\ UNCHANGED <<acInFlight, acSearchWeb, acHistory, acFiles, acMode, acRerank, llmTemperature,
                   acRewritten, acQuery, acRetrieved, acCalls, acSorted, acContext,
                   acEmitted>>

\* a fetchPromise whose timeout had fired settles after getDocumentsFromLinks
\* has returned: it rejects or extracts nothing, or it pushes its document
\* onto the returned array, which in the search branch is the array that
\* rerankDocs is about to read
acLateFetch ==
    /\ acInFlight > 0
    /\ acInFlight' = acInFlight - 1
    /\ \E pushes \in BOOLEAN :
          IF pushes /\ acPc = "Reranking" /\ acRewritten = "search"
             THEN acRetrieved' = Append(acRetrieved,
                                        [pageContent |-> "c3", url |-> Len(acRetrieved),
                                         title |-> "web"])
             ELSE acRetrieved' = acRetrieved
    /\ UNCHANGED <<acSearchWeb, acHistory, acFiles, acMode, acRerank, llmTemperature,
                   acPc, acRewritten, acQuery, acCalls, acSorted, acContext, acEmitted,
                   acFailure>>

ChainNext ==
    \/ acNoSearchWeb /\ UNCHANGED notChainVars
    \/ acNotNeeded /\ UNCHANGED notChainVars
    \/ acLinkMode /\ UNCHANGED notChainVars
    \/ acSearchMode /\ UNCHANGED notChainVars
    \/ acRetrieveFail /\ UNCHANGED notChainVars
    \/ acRerankDone /\ UNCHANGED notChainVars
    \/ acRerankFail /\ UNCHANGED notChainVars
    \/ acAssemble /\ UNCHANGED notChainVars
    \/ acGenerateEnd /\ UNCHANGED notChainVars
    \/ acGenerateFail /\ UNCHANGED notChainVars
    \/ acLateFetch /\ UNCHANGED notChainVars

(***************************************************************************)
(* MockDb, the in-memory database.  chats maps a chat id to its row and    *)
(* messages maps a chat id to its message list; a key that is not in a map *)
(* has the row NoChat, or present = FALSE.  A message row is              *)
(* [id, chatId, messageId].  The conditions that delete understands are    *)
(* eq(chats.id, c), eq(messages.chatId, c) and                             *)
(* and(gt(messages.id, m), eq(messages.chatId, c)); with any other         *)
(* condition it changes nothing.                                           *)
(***************************************************************************)
ChatIds == {"c1", "c2"}
ChatTitles == {"t1", "t2"}
MessageIds == {"a", "b"}

NoChat == "none"
NoList == [present |-> FALSE, rows |-> <<>>]

\* the call that was executed last
Call(op, chatId, id) == [op |-> op, chatId |-> chatId, id |-> id]

\* this.messages.get(chatId) || []
messagesArrayOf(chatId) == IF messages[chatId].present THEN messages[chatId].rows ELSE <<>>

\* messagesArray.filter(m => m.id <= messageId)
keepUpTo(rows, messageId) == SelectSeq(rows, LAMBDA m : m.id <= messageId)

DbIdle ==
    /\ chats = [c \in ChatIds |-> NoChat]
    /\ messages = [c \in ChatIds |-> NoList]
    /\ messageIdCounter = 1
    /\ lastCall = Call("none", "c1", 0)

\* new MockDb()
DbInit ==
    /\ chats = [c \in ChatIds |-> NoChat]
    /\ messages = [c \in ChatIds |-> NoList]
    /\ messageIdCounter = 1
    /\ lastCall = Call("none", "c1", 0)

\* insert(schema.chats).values(data).execute()
insertChat(id, title) ==
    /\ chats' = [chats EXCEPT ![id] = title]
    /\ messages' = [messages EXCEPT ![id] = [present |-> TRUE, rows |-> <<>>]]
    /\ lastCall' = Call("insertChat", id, 0)
    /\ UNCHANGED messageIdCounter

\* insert(schema.messages).values(data).execute()
insertMessage(chatId, messageId) ==
    /\ messageIdCounter <= MaxMessages
    /\ messages' = [messages EXCEPT ![chatId] =
                       [present |-> TRUE,
                        rows |-> Append(messagesArrayOf(chatId),
                                        [id |-> messageIdCounter, chatId |-> chatId,
                                         messageId |-> messageId])]]
    /\ messageIdCounter' = messageIdCounter + 1
    /\ lastCall' = Call("insertMessage", chatId, messageIdCounter)
    /\ UNCHANGED chats

\* delete(schema.chats).where(eq(chats.id, value)).execute()
deleteChat(value) ==
    /\ chats' = [chats EXCEPT ![value] = NoChat]
    /\ messages' = [messages EXCEPT ![value] = NoList]
    /\ lastCall' = Call("deleteChat", value, 0)
    /\ UNCHANGED messageIdCounter

\* delete(schema.messages).where(eq(messages.chatId, value)).execute()
deleteMessages(value) ==
    /\ messages' = [messages EXCEPT ![value] = NoList]
    /\ lastCall' = Call("deleteMessages", value, 0)
    /\ UNCHANGED <<chats, messageIdCounter>>

\* delete(schema.messages)
\*   .where(and(gt(messages.id, messageId), eq(messages.chatId, chatId))).execute():
\* `if (messageId && chatId)` is false for the message id 0
deleteAfter(messageId, chatId) ==
    /\ IF messageId # 0
          THEN messages' = [messages EXCEPT ![chatId] =
                               [present |-> TRUE,
                                rows |-> keepUpTo(messagesArrayOf(chatId), messageId)]]
          ELSE messages' = messages
    /\ lastCall' = Call("deleteAfter", chatId, messageId)
    /\ UNCHANGED <<chats, messageIdCounter>>

DbNext ==
    \/ \E id \in ChatIds, title \in ChatTitles : insertChat(id, title) /\ UNCHANGED notDbVars
    \/ \E chatId \in ChatIds, messageId \in MessageIds :
          insertMessage(chatId, messageId) /\ UNCHANGED notDbVars
    \/ \E value \in ChatIds : deleteChat(value) /\ UNCHANGED notDbVars
    \/ \E value \in ChatIds : deleteMessages(value) /\ UNCHANGED notDbVars
    \/ \E messageId \in 0..MaxMessages, chatId \in ChatIds :
          deleteAfter(messageId, chatId) /\ UNCHANGED notDbVars

(***************************************************************************)
(* Properties of the event stream (StreamSpec).                            *)
(***************************************************************************)

\* C1: on the emitter, the events are one `sources`, then `response` chunks,
\* then one `end`: `sources` is the first event and only the first, `end` is
\* only ever the last, and a run whose handleStream returned has delivered
\* both, the `sources` first and the `end` last.
C1_EventOrder ==
    /\ \A i \in 1..Len(emitted) :
          /\ (emitted[i] = "sources") <=> (i = 1)
          /\ (emitted[i] = "end") => (i = Len(emitted))
          /\ emitted[i] \in {"sources", "response", "end"}
    /\ handlerSt = "returned" =>
          /\ Len(emitted) >= 2
          /\ emitted[1] = "sources"
          /\ emitted[Len(emitted)] = "end"
          /\ CountOf(emitted, "sources") = 1
          /\ CountOf(emitted, "end") = 1

\* a completed run that streamed at least two chunks
C1_Witness ==
    /\ handlerSt = "returned"
    /\ CountOf(emitted, "response") >= 2

\* C2: a run whose handleStream has terminated, normally or by the stream
\* throwing, has delivered an `end` event or an error event on the emitter.
C2_EndOrError ==
    handlerSt \in {"returned", "rejected"} =>
        \/ "end" \in Range(emitted)
        \/ "error" \in Range(emitted)

(***************************************************************************)
(* Properties of rerankDocs (RerankSpec).                                  *)
(***************************************************************************)

\* C3: a call of rerankDocs in `quality` mode returns the list that the call
\* in `balanced` mode returns on the same query, documents and files.
C3_QualityAsBalanced ==
    (rrPc = "returned" /\ rrMode = "quality") =>
        rrOut = rerankDocs(rrQuery, rrDocs, rrFiles, "balanced", rrRerank)

\* C20 as stated: in `speed` mode, or with reranking disabled, and with no
\* uploaded files, the result is the first min(30, n) documents that have
\* content, in their order, and no embedding call is made.
C20_SpeedNoFilesAlways ==
    (rrPc = "returned" /\ (rrMode = "speed" \/ ~rrRerank) /\ rrFiles = <<>>) =>
        /\ rrOut = Take(SelectSeq(rrDocs, LAMBDA d : d.pageContent # ""), 30)
        /\ rrCalls = {}

\* C20, amended: the same, for a query that is not 'summarize' in any
\* letter case.
C20_SpeedNoFiles ==
    (rrPc = "returned" /\ (rrMode = "speed" \/ ~rrRerank) /\ rrFiles = <<>>
        /\ toLocaleLowerCase(rrQuery) # "summarize") =>
        /\ rrOut = Take(SelectSeq(rrDocs, LAMBDA d : d.pageContent # ""), 30)
        /\ Len(rrOut) = (IF Len(SelectSeq(rrDocs, LAMBDA d : d.pageContent # "")) < 30
                            THEN Len(SelectSeq(rrDocs, LAMBDA d : d.pageContent # ""))
                            ELSE 30)
        /\ rrCalls = {}

\* 31 documents, the first without content, ranked in `speed` mode: 30 come back
C20_Witness ==
    /\ rrPc = "returned"
    /\ rrMode = "speed"
    /\ rrFiles = <<>>
    /\ rrQuery = "q"
    /\ Len(rrDocs) = 31
    /\ rrDocs[1].pageContent = ""
    /\ Len(rrOut) = 30
    /\ rrOut[1].url = 2

\* the embedding that belongs to a returned document: the stored embedding of
\* an uploaded-file chunk, the embedding service's answer for a web document
ownEmbedding(doc) ==
    IF doc.title = "file"
        THEN CHOOSE v \in FileVectors : fileContent(v) = doc.pageContent
        ELSE embedDocument(doc.pageContent)

ownSimilarity(doc) == computeSimilarity(embedQuery(rrQuery), ownEmbedding(doc))

\* similarity > 0.3, written out
StrictlyAbove03(x) == x.dot > 0 /\ 100 * x.dot * x.dot > 9 * x.norm2

BalancedResult ==
    /\ \A i \in 1..Len(rrOut) : StrictlyAbove03(ownSimilarity(rrOut[i]))
    /\ \A i \in 1..(Len(rrOut) - 1) :
          ~SimLess(ownSimilarity(rrOut[i]), ownSimilarity(rrOut[i + 1]))
    /\ Len(rrOut) <= 20

\* C21 as stated: every call in `balanced` mode returns only documents whose
\* own similarity to the query is not below the threshold, in non-increasing
\* similarity order, at most 20 of them.
C21_BalancedAlways ==
    (rrPc = "returned" /\ rrMode = "balanced") => BalancedResult

\* C21, amended: the same for a call in `balanced` mode with reranking enabled
\* and a query that is not 'summarize' in any letter case.
C21_Balanced ==
    (rrPc = "returned" /\ rrMode = "balanced" /\ rrRerank
        /\ toLocaleLowerCase(rrQuery) # "summarize") => BalancedResult

\* 31 web documents above the threshold, the first less similar than the
\* others, and an uploaded chunk: 20 come back and the first is not in front
C21_Witness ==
    /\ rrPc = "returned"
    /\ rrMode = "balanced"
    /\ rrRerank
    /\ rrQuery = "q"
    /\ Len(rrDocs) = 31
    /\ rrDocs[1].pageContent = "c2"
    /\ Len(rrFiles) = 1
    /\ Len(rrOut) = 20
    /\ rrOut[1].url # 1

\* C22: a call whose query is 'summarize' in any letter case returns the
\* first 30 input documents in their order, whatever the mode, the reranking
\* switch and the uploaded files, and makes no call to the embedding service.
C22_SummarizeShortCircuit ==
    (rrPc = "returned" /\ rrQuery \in {"summarize", "Summarize"}) =>
        /\ Len(rrOut) = (IF Len(rrDocs) < 30 THEN Len(rrDocs) ELSE 30)
        /\ \A i \in 1..Len(rrOut) : rrOut[i] = rrDocs[i]
        /\ rrCalls = {}

\* 'Summarize' in `balanced` mode with an uploaded chunk and 31 documents, the
\* first without content: the first 30 come back, the empty one included
C22_Witness ==
    /\ rrPc = "returned"
    /\ rrQuery = "Summarize"
    /\ rrMode = "balanced"
    /\ rrRerank
    /\ Len(rrFiles) = 1
    /\ Len(rrDocs) = 31
    /\ Len(rrOut) = 30
    /\ rrOut[1].pageContent = ""
    /\ rrCalls = {}

(***************************************************************************)
(* Properties of getDocumentsFromLinks (LinksSpec).                        *)
(***************************************************************************)

\* C4: the returned documents are in the order of the input links: a document
\* for an earlier link never comes after a document for a later link.
C4_InputOrder ==
    glPc = "returned" =>
        \A i, j \in 1..Len(docs) : i < j => docs[i].url <= docs[j].url

C8_FailureIsPlaceholder ==
    /\ glPc # "rejected"
    /\ \A k \in DOMAIN glFetch :
          glFetch[k] = "rejected" =>
              \E i \in 1..Len(docs) :
                  /\ docs[i].url = glLink(k)
                  /\ docs[i].title = "Failed to retrieve content"
                  /\ docs[i].error \in {"proxy", "insufficient", "direct", "timeout"}
    /\ \A k \in DOMAIN glFetch :
          (glWrap[k] = "done" /\ glFetch[k] = "inFlight") =>
              \E i \in 1..Len(docs) :
                  docs[i] = failedDocument(glLink(k), "timeout")
    /\ glPc = "returned" => \A k \in DOMAIN glWrap : glWrap[k] = "done"

\* a returned call in which one link timed out, another failed in its fetch,
\* and a link of a later batch was still fetched and extracted
C8_Witness ==
    /\ glPc = "returned"
    /\ \E i, j, l \in 1..Len(docs) :
          /\ docs[i].error = "timeout"
          /\ docs[j].error = "proxy"
          /\ docs[l].title = "reddit"
          /\ docs[l].url > docs[i].url
          /\ docs[l].url > docs[j].url

\* the documents of docs that belong to the k-th processed link
docsOfLink(k) == {i \in 1..Len(docs) : docs[i].url = glLink(k)}

C5_OneEntryPerUrl ==
    /\ scPc \in {"idle", "loop", "wave", "delay"} =>
          \A i \in 1..Len(allScoreResults) : allScoreResults[i].url = i
    /\ scPc = "wave" => Len(allScoreResults) = scI
    /\ (scPc = "loop" /\ scI >= Len(scUrls)) => Len(allScoreResults) = Len(scUrls)
    /\ scPc = "selected" =>
          /\ Len(allScoreResults) = Len(scUrls)
          /\ \A k \in 1..Len(scUrls) :
                Cardinality({i \in 1..Len(allScoreResults) : allScoreResults[i].url = k}) = 1

\* a full wave was collected whose score-fetches settled out of input order
C5_Witness ==
    /\ scPc = "delay"
    /\ Len(allScoreResults) = SCORE_BATCH_SIZE
    /\ Len(scCompleted) = SCORE_BATCH_SIZE
    /\ scCompleted # BatchOrder

\* C6: no call of extractTopCommentScore rejects; a result produced by an
\* error has score 0; and when the urls are selected every candidate url has
\* its entry, whatever happened to the others.
C6_ScoringNeverRejects ==
    /\ \A k \in DOMAIN scW : scW[k].pc # "rejected"
    /\ \A k \in DOMAIN scRes : scRes[k].error => scRes[k].score = 0
    /\ \A i \in 1..Len(allScoreResults) :
          allScoreResults[i].error => allScoreResults[i].score = 0
    /\ scPc = "selected" =>
          \A k \in 1..Len(scUrls) : \E i \in 1..Len(allScoreResults) :
              allScoreResults[i].url = k

\* the selection was reached with a url that failed in the first wave and a
\* url of the second wave that was scored above zero
C6_Witness ==
    /\ scPc = "selected"
    /\ \E i, j \in 1..Len(allScoreResults) :
          /\ allScoreResults[i].error
          /\ allScoreResults[i].url <= SCORE_BATCH_SIZE
          /\ allScoreResults[j].url > SCORE_BATCH_SIZE
          /\ allScoreResults[j].score > 0

(***************************************************************************)
(* Properties of the reddit proxy route (ProxySpec).                       *)
(***************************************************************************)

\* C9: markup is returned (status 200) only if the body is longer than 5000
\* characters and holds none of the block markers, whichever strategy got it.
C9_AcceptedOnlyIfClean ==
    pxResponse.status = 200 =>
        /\ pxResponse.html.length > MIN_HTML_LENGTH
        /\ pxResponse.html.markers \cap {"whoa there, pardner", "network policy"} = {}

\* C11: the failure response given when every strategy has failed carries
\* what the last strategy attempted observed: its upstream status or error.
C11_FailureCarriesLast ==
    (pxResponse.status = 502 /\ pxAttempts # <<>>) =>
        pxResponse.error = pxAttempts[Len(pxAttempts)].observed

\* C10: the strategies attempted are an initial part of the fixed list, in
\* its order and each once; every attempt but the last was rejected or
\* errored, so nothing is attempted after an acceptance; for the first
\* definition of GET the list is cache-backed proxy, archival mirror, direct
\* request, alternate host.
C10_StrategyOrder ==
    /\ Len(pxAttempts) <= Len(Strategies(pxVariant))
    /\ \A i \in 1..Len(pxAttempts) :
          /\ pxAttempts[i].strategy = Strategies(pxVariant)[i]
          /\ i < Len(pxAttempts) => pxAttempts[i].result # "accepted"
    /\ \A i, j \in 1..Len(pxAttempts) :
          i # j => pxAttempts[i].strategy # pxAttempts[j].strategy
    /\ pxVariant = "route1" =>
          \A i \in 1..Len(pxAttempts) :
              pxAttempts[i].strategy =
                  <<"allorigins", "archive", "direct", "corsproxy">>[i]
    /\ pxPc = "responded" /\ pxUrl = "reddit" =>
          \/ pxAttempts[Len(pxAttempts)].result = "accepted"
          \/ Len(pxAttempts) = Len(Strategies(pxVariant))

\* the first definition accepted its last strategy after rejecting the others
C10_Witness ==
    /\ pxVariant = "route1"
    /\ pxPc = "responded"
    /\ Len(pxAttempts) = 4
    /\ pxAttempts[4].strategy = "corsproxy"
    /\ pxAttempts[4].result = "accepted"
    /\ pxAttempts[1].result = "rejected"

\* C33 as stated: the promise of GET never rejects, and once it is settled the
\* caller holds a response with status 200, 400, 502 or 500.
C33_AlwaysResponds ==
    /\ pxOutcome # "rejected"
    /\ pxOutcome = "resolved" => pxResponse.status \in {200, 400, 502, 500}

(***************************************************************************)
(* Properties of the retrying fetch (RetrySpec).                           *)
(***************************************************************************)

\* C12: the loop makes at most maxRetries attempts; the delay before retry
\* number n is n times the base of 2000 ms and every attempt after the first
\* comes right after its delay; when the loop has thrown, the last thing it
\* did was a request of the last attempt.
C12_BoundedRetries ==
    /\ rfRetries <= maxRetries
    /\ Cardinality({i \in 1..Len(rfLog) :
                       rfLog[i].op = "get" /\ rfLog[i].host = "primary"}) <= maxRetries
    /\ \A i \in 1..Len(rfLog) :
          /\ rfLog[i].attempt \in 1..maxRetries
          /\ rfLog[i].op = "delay" =>
                /\ rfLog[i].attempt >= 2
                /\ rfLog[i].ms = 2000 * (rfLog[i].attempt - 1)
          /\ (rfLog[i].op = "get" /\ rfLog[i].host = "primary" /\ rfLog[i].attempt >= 2) =>
                /\ i > 1
                /\ rfLog[i - 1].op = "delay"
                /\ rfLog[i - 1].attempt = rfLog[i].attempt
    /\ rfPc = "failed" =>
          /\ rfRetries = maxRetries
          /\ rfError # "none"
          /\ rfLog[Len(rfLog)].op = "get"
          /\ rfLog[Len(rfLog)].attempt = maxRetries

\* the loop gave up after its third attempt, having waited 2000 and 4000 ms
C12_Witness ==
    /\ rfPc = "failed"
    /\ \E i, j \in 1..Len(rfLog) :
          /\ i < j
          /\ rfLog[i].op = "delay" /\ rfLog[i].ms = 2000
          /\ rfLog[j].op = "delay" /\ rfLog[j].ms = 4000

\* C13: the alternate host is requested only on the final attempt; the
\* earlier attempts request the primary host only.
C13_AlternateOnlyLast ==
    \A i \in 1..Len(rfLog) :
        rfLog[i].host = "alternate" => rfLog[i].attempt = maxRetries

(***************************************************************************)
(* Properties of extractRedditContent (ExtractSpec).                       *)
(***************************************************************************)

\* C14: the returned comments are in non-increasing order of score, a
\* missing score counting as 0, and comments of equal score are in the order
\* of the markup.
C14_SortedByScore ==
    exPc # "idle" =>
        \A i, j \in 1..Len(exOut.comments) :
            i < j =>
                LET a == exOut.comments[i]
                    b == exOut.comments[j]
                    sa == IF a.score = "none" THEN 0 ELSE parseInt(a.score)
                    sb == IF b.score = "none" THEN 0 ELSE parseInt(b.score)
                IN  /\ sa >= sb
                    /\ sa = sb => a.author < b.author

\* a result in which the sort moved a later comment to the front and left
\* comments of equal score behind it
C14_Witness ==
    /\ exPc = "returned"
    /\ Len(exOut.comments) >= 3
    /\ exOut.comments[1].author > exOut.comments[2].author
    /\ exOut.comments[2].score = exOut.comments[3].score

\* C15: with no visible comment and N >= 1 parseable non-blank comments the
\* result has min(N, 10) comments; with at least one visible comment the
\* result has visible comments only, at most 10.  Visible is what the markup
\* says: the `noncollapsed` token and no `collapsed` token.
C15_VisibleOnly ==
    exPc = "returned" =>
        LET usable == {i \in 1..Len(exHtml.blocks) :
                          exHtml.blocks[i].parseable /\ trim(exHtml.blocks[i].text) # ""}
            shown == {i \in usable :
                          /\ "noncollapsed" \in Range(exHtml.blocks[i].classes)
                          /\ "collapsed" \notin Range(exHtml.blocks[i].classes)}
            n == Cardinality(usable)
        IN  /\ (shown = {} /\ n >= 1) =>
                  Len(exOut.comments) = IF n < MAX_COMMENTS THEN n ELSE MAX_COMMENTS
            /\ shown # {} =>
                  /\ Len(exOut.comments) <= MAX_COMMENTS
                  /\ \A j \in 1..Len(exOut.comments) : exOut.comments[j].author \in shown

\* C16: a comment block is classified visible exactly when its class tokens
\* include `noncollapsed` and do not include `collapsed`.
C16_VisibleIffMarker ==
    exPc = "returned" =>
        \A i \in 1..Len(exHtml.blocks) :
            commentEntry(exHtml.blocks[i], i).visible
                <=> /\ "noncollapsed" \in Range(exHtml.blocks[i].classes)
                    /\ "collapsed" \notin Range(exHtml.blocks[i].classes)

\* C17: the call ends by returning a value, never by throwing; `success` is
\* true exactly when the post body is non-empty or a comment is returned;
\* no returned comment has a blank text.
C17_NeverThrows ==
    /\ exPc \in {"idle", "returned", "caught"}
    /\ exPc # "idle" =>
          /\ exOut.success <=> (exOut.postContent # "" \/ exOut.comments # <<>>)
          /\ \A j \in 1..Len(exOut.comments) : trim(exOut.comments[j].text) # ""

\* a successful result with no post body, whose markup had a blank comment
\* that was left out
C17_Witness ==
    /\ exPc = "returned"
    /\ exOut.success
    /\ exOut.postContent = ""
    /\ Len(exOut.comments) = 1
    /\ Len(exHtml.blocks) = 2
    /\ \E i \in 1..2 : exHtml.blocks[i].parseable /\ exHtml.blocks[i].text = " "

(***************************************************************************)
(* Properties of processDocs (ProcSpec).                                   *)
(***************************************************************************)

\* C18: the content of every emitted block is no longer than the cap of its
\* document's kind (6000 for a discussion document, 2000 for another) plus
\* the length of a truncation notice.
C18_BlockWithinCap ==
    pdPc = "returned" =>
        \A i \in 1..Len(pdOut.blocks) :
            pdOut.blocks[i].content.contentLen
                <= (IF pdDocs[i].isReddit \/ pdDocs[i].redditUrl THEN 6000 ELSE 2000)
                     + OMITTED_NOTICE_LENGTH

\* C19: the blocks are those of the first 8 documents in rank order, they are
\* numbered 1..n, and the header states n, the number of blocks.
C19_FirstEightNumbered ==
    pdPc = "returned" =>
        /\ Len(pdOut.blocks) = (IF Len(pdDocs) < 8 THEN Len(pdDocs) ELSE 8)
        /\ pdOut.count = Len(pdOut.blocks)
        /\ \A i \in 1..Len(pdOut.blocks) :
              /\ pdOut.blocks[i].number = i
              /\ pdOut.blocks[i].source = i

\* nine documents were handed over and eight blocks came out
C19_Witness ==
    /\ pdPc = "returned"
    /\ Len(pdDocs) = 9
    /\ Len(pdOut.blocks) = 8
    /\ pdOut.count = 8

\* the documents of a call that are discussion documents with both section
\* headers and longer than 6000 characters
LongDiscussions ==
    {i \in 1..Len(pdOut.blocks) :
        /\ pdDocs[i].isReddit \/ pdDocs[i].redditUrl
        /\ pdDocs[i].content.sections
        /\ contentLength(pdDocs[i].content) > 6000}

\* the title section and the whole post section are in the block
KeepsTitleAndPost(i) ==
    pdOut.blocks[i].content.contentLen >=
        pdDocs[i].content.titleLen + pdDocs[i].content.postLen

\* a document no longer than its cap is emitted as it is
ShortUnchanged(i) ==
    contentLength(pdDocs[i].content)
            <= (IF pdDocs[i].isReddit \/ pdDocs[i].redditUrl THEN 6000 ELSE 2000) =>
        /\ pdOut.blocks[i].content.contentLen = contentLength(pdDocs[i].content)
        /\ pdOut.blocks[i].content.notice = "none"

\* C37 as stated: for a discussion document longer than 6000 characters with
\* both headers the title and the post section are kept; when 6000 minus the
\* length of the post section exceeds 500 the kept comments are no longer
\* than that budget, end at a paragraph boundary and are followed by the
\* truncation notice; otherwise the omission notice stands for the comments.
\* A document no longer than its cap is unchanged.
C37_SectionTruncationAsStated ==
    pdPc = "returned" =>
        /\ \A i \in 1..Len(pdOut.blocks) : ShortUnchanged(i)
        /\ \A i \in LongDiscussions :
              LET c == pdDocs[i].content
                  out == pdOut.blocks[i].content
                  budget == 6000 - c.postLen
              IN  /\ KeepsTitleAndPost(i)
                  /\ IF budget > 500
                        THEN /\ out.commentsKept <= budget
                             /\ out.commentsKept \in c.breaks
                             /\ out.notice = "additional comments truncated"
                             /\ out.contentLen = c.titleLen + c.postLen + out.commentsKept
                                                    + ADDITIONAL_NOTICE_LENGTH
                        ELSE /\ out.commentsKept = 0
                             /\ out.notice = "comments omitted"
                             /\ out.contentLen = c.titleLen + c.postLen
                                                    + OMITTED_NOTICE_LENGTH

\* C37, amended: as above, but with a budget above 500 there are three cases.
\* Comments that fit in the budget are kept whole, with no notice.  Comments
\* longer than the budget are cut at the last paragraph boundary that is not
\* beyond the budget, or, when there is none, at the budget itself, in the
\* middle of a paragraph; the truncation notice follows in both.
C37_SectionTruncation ==
    pdPc = "returned" =>
        /\ \A i \in 1..Len(pdOut.blocks) : ShortUnchanged(i)
        /\ \A i \in LongDiscussions :
              LET c == pdDocs[i].content
                  out == pdOut.blocks[i].content
                  budget == 6000 - c.postLen
                  within == {b \in c.breaks : b <= budget}
              IN  /\ KeepsTitleAndPost(i)
                  /\ IF budget > 500 /\ c.commentsLen <= budget
                        THEN /\ out.commentsKept = c.commentsLen
                             /\ out.notice = "none"
                             /\ out.contentLen = contentLength(c)
                        ELSE IF budget > 500
                        THEN /\ out.commentsKept <= budget
                             /\ IF within # {}
                                   THEN /\ out.commentsKept \in within
                                        /\ \A b \in within : b <= out.commentsKept
                                   ELSE out.commentsKept = budget
                             /\ out.notice = "additional comments truncated"
                             /\ out.contentLen = c.titleLen + c.postLen + out.commentsKept
                                                    + ADDITIONAL_NOTICE_LENGTH
                        ELSE /\ out.commentsKept = 0
                             /\ out.notice = "comments omitted"
                             /\ out.contentLen = c.titleLen + c.postLen
                                                    + OMITTED_NOTICE_LENGTH

\* a call on two long discussions: the comments of one were cut at the blank
\* line at 5000, under its budget of 5800, and those of the other, whose
\* post section leaves a budget of 400, were replaced by the omission notice
C37_Witness ==
    /\ pdPc = "returned"
    /\ \E i, j \in LongDiscussions :
          /\ pdDocs[i].content.postLen = 200
          /\ pdDocs[i].content.commentsLen = 7000
          /\ pdOut.blocks[i].content.commentsKept = 5000
          /\ pdOut.blocks[i].content.notice = "additional comments truncated"
          /\ pdDocs[j].content.postLen = 5600
          /\ pdOut.blocks[j].content.notice = "comments omitted"

(***************************************************************************)
(* Properties of the search branch (SearchSpec).                           *)
(***************************************************************************)

\* the reddit results in front of which fewer than 20 reddit results stand
FirstTwentyReddit ==
    {i \in 1..Len(smResults) :
        /\ smResults[i] # "other"
        /\ Cardinality({h \in 1..(i - 1) : smResults[h] # "other"}) < 20}

\* C23: the scored candidates are the first (at most 20) reddit results, one
\* score each; the selected urls are at most 10, as many as 10 or as there are
\* candidates, each of them a scored candidate and none twice; and no
\* candidate left out has a strictly higher score than a selected one.
C23_TopByScore ==
    /\ smPc # "idle" =>
          /\ Len(smAllScoreResults) <= 20
          /\ {smAllScoreResults[i].url : i \in 1..Len(smAllScoreResults)}
                = FirstTwentyReddit
          /\ Len(smAllScoreResults) = Cardinality(FirstTwentyReddit)
    /\ smPc \in {"selected", "fetched"}
          \/ (smPc = "returned" /\ smAllScoreResults # <<>>) =>
          /\ Len(smTopRedditUrls) =
                (IF Len(smAllScoreResults) < 10 THEN Len(smAllScoreResults) ELSE 10)
          /\ \A j \in 1..Len(smTopRedditUrls) :
                /\ smTopRedditUrls[j] \in FirstTwentyReddit
                /\ \A h \in 1..Len(smTopRedditUrls) :
                      smTopRedditUrls[h] = smTopRedditUrls[j] => h = j
          /\ \A a, b \in 1..Len(smAllScoreResults) :
                (/\ \A j \in 1..Len(smTopRedditUrls) :
                        smTopRedditUrls[j] # smAllScoreResults[a].url
                 /\ \E j \in 1..Len(smTopRedditUrls) :
                        smTopRedditUrls[j] = smAllScoreResults[b].url)
                    => smAllScoreResults[a].score <= smAllScoreResults[b].score

\* 22 reddit results: 20 are scored, 10 selected, and a candidate left out
\* stands in the search results before a selected one
C23_Witness ==
    /\ smPc = "selected"
    /\ Len(smResults) = 22
    /\ Len(smAllScoreResults) = 20
    /\ Len(smTopRedditUrls) = 10
    /\ \E a \in FirstTwentyReddit : \E j \in 1..10 :
          /\ \A h \in 1..10 : smTopRedditUrls[h] # a
          /\ a < smTopRedditUrls[j]

\* C24 as stated: after the full fetch, the fetched set holds exactly one
\* document for every selected url, so as many documents as selected urls.
C24_OneDocumentPerSelected ==
    smPc = "fetched" =>
        /\ Len(documents) = Len(smTopRedditUrls)
        /\ \A j \in 1..Len(smTopRedditUrls) :
              Cardinality({i \in 1..Len(documents) :
                              documents[i].url = smTopRedditUrls[j]}) = 1

\* a fetched document whose content is longer than 100 characters: a
\* discussion extracted to more than 100 characters, or the placeholder of a
\* timeout, whose message holds the url
HasUsableContent(doc) ==
    \/ doc.title = "reddit" /\ smFetchEnv[doc.url] = "long"
    \/ doc.title = "Failed to retrieve content" /\ doc.error = "timeout"

\* C25: the step after the full fetch leaves the fetched documents unchanged
\* when two or more of them have content longer than 100 characters, and
\* otherwise replaces them by those with such content followed by one snippet
\* document per reddit search result, in the order of the results.
C25_SnippetFallback ==
    [][(smPc = "fetched" /\ smPc' = "returned") =>
          LET usable == SelectSeq(documents, HasUsableContent)
              reddit == redditResults(smResults)
          IN  IF Len(usable) < 2
                 THEN /\ Len(documents') = Len(usable) + Len(reddit)
                      /\ \A i \in 1..Len(usable) : documents'[i] = usable[i]
                      /\ \A j \in 1..Len(reddit) :
                            /\ documents'[Len(usable) + j].title = "snippet"
                            /\ documents'[Len(usable) + j].url = reddit[j]
                 ELSE documents' = documents]_vars

\* the fallback ran on a fetched set in which one document only was usable:
\* it stands in front of the snippets of the reddit results
C25_Witness ==
    /\ smPc = "returned"
    /\ Len(redditResults(smResults)) >= 2
    /\ Len(documents) = 1 + Len(redditResults(smResults))
    /\ documents[1].title = "reddit"
    /\ documents[2].title = "snippet"
    /\ \E u \in 1..Len(smResults) :
          smResults[u] = "post" /\ smFetchEnv[u] \in {"short", "failed"}

\* a discussion that was extracted to more than 100 characters
GenuinelyExtracted(doc) == doc.title = "reddit" /\ smFetchEnv[doc.url] = "long"

C26_NeverEmpty ==
    (smPc = "returned" /\ Len(smResults) >= 1) => documents # <<>>

(***************************************************************************)
(* Properties of the link branch (GroupSpec).                              *)
(***************************************************************************)

\* C28: every group joins contents of documents of its own url only, at most
\* 10 of them, and every fetched document is joined in a group; one llm call
\* is made per group; and the returned documents are one per group, each with
\* the title and the url of its group.
C28_OneSummaryPerGroup ==
    /\ lgPc # "idle" =>
          /\ \A k \in 1..Len(docGroups) :
                /\ Len(docGroups[k].pageContent) <= 10
                /\ \A p \in 1..Len(docGroups[k].pageContent) :
                      lgLinkDocs[docGroups[k].pageContent[p]].url = docGroups[k].url
                /\ docGroups[k].title = lgLinkDocs[docGroups[k].pageContent[1]].title
          /\ \A id \in 1..Len(lgLinkDocs) : \E k \in 1..Len(docGroups) :
                \E p \in 1..Len(docGroups[k].pageContent) :
                    docGroups[k].pageContent[p] = id
          /\ DOMAIN lgInvoke = 1..Len(docGroups)
    /\ lgPc = "returned" =>
          /\ Len(lgDocs) = Len(docGroups)
          /\ \A k \in 1..Len(docGroups) :
                /\ Cardinality({i \in 1..Len(lgDocs) : lgDocs[i].summaryOf = k}) = 1
                /\ \A i \in 1..Len(lgDocs) :
                      lgDocs[i].summaryOf = k =>
                          /\ lgDocs[i].url = docGroups[k].url
                          /\ lgDocs[i].title = docGroups[k].title

\* twelve documents of one url and one of another: three groups, the first of
\* them full, and three summary documents returned
C28_Witness ==
    /\ lgPc = "returned"
    /\ Len(lgLinkDocs) = 12
    /\ Len(docGroups) = 3
    /\ docGroups[1].totalDocs = 10
    /\ docGroups[2].url = "u2"
    /\ docGroups[3].url = "u1"
    /\ Len(lgDocs) = 3

\* C36 as stated: once the groups are built, the content of every fetched
\* document is joined exactly once, in the group of its url; the contents of
\* a group stand in the order of the fetch; and totalDocs of a group is the
\* number of contents joined in it.
C36_EachChunkOnce ==
    lgPc # "idle" =>
        /\ \A id \in 1..Len(lgLinkDocs) :
              /\ Cardinality({<<k, p>> \in (DOMAIN docGroups) \X (1..(2 * MAX_GROUP_DOCS)) :
                                  /\ p <= Len(docGroups[k].pageContent)
                                  /\ docGroups[k].pageContent[p] = id}) = 1
              /\ \E k \in DOMAIN docGroups :
                    /\ docGroups[k].url = lgLinkDocs[id].url
                    /\ id \in Range(docGroups[k].pageContent)
        /\ \A k \in DOMAIN docGroups :
              /\ \A p, q \in 1..Len(docGroups[k].pageContent) :
                    p < q => docGroups[k].pageContent[p] < docGroups[k].pageContent[q]
              /\ docGroups[k].totalDocs = Len(docGroups[k].pageContent)

(***************************************************************************)
(* Properties of the answering chain (ChainSpec).                           *)
(***************************************************************************)

\* C27 as stated: in a run whose rewrite gave 'not_needed' no search, scoring
\* or link-fetch call is made, and the generator is invoked with a context of
\* zero sources, whatever the mode and the uploaded files.
C27_NotNeededEmptyContext ==
    (acRewritten = "not_needed" /\ acPc \in {"Generating", "Done"}) =>
        /\ acCalls \cap RetrievalCalls = {}
        /\ acSorted = <<>>
        /\ acContext.count = 0

\* C29: once rerankDocs has returned an empty list the run goes on and does
\* not fail on it: the assembly step can be taken and gives a context with a
\* header of 0 sources and no block, the generator is invoked with it and can
\* finish, no failure comes from the assembly, and a run that is done has
\* `end` as the last event on its emitter.
C29_EmptyRankingStillAnswers ==
    /\ (acPc = "Assembling" /\ acSorted = <<>>) =>
          /\ ENABLED acAssemble
          /\ acFailure = "none"
    /\ (acPc = "Generating" /\ acSorted = <<>>) =>
          /\ acContext = [count |-> 0, blocks |-> <<>>]
          /\ "generate" \in acCalls
          /\ ENABLED acGenerateEnd
          /\ acFailure = "none"
    /\ (acPc = "Done" /\ acSorted = <<>>) =>
          /\ acContext = [count |-> 0, blocks |-> <<>>]
          /\ "generate" \in acCalls
          /\ acEmitted # <<>>
          /\ acEmitted[Len(acEmitted)] = "end"
    /\ acFailure \in {"none", "retrieval", "embedding", "generation"}

\* a run that retrieved documents, ranked none of them, and is done with a
\* context of 0 sources and `end` as its last event
C29_Witness ==
    /\ acPc = "Done"
    /\ acRetrieved # <<>>
    /\ acSorted = <<>>
    /\ acContext.count = 0
    /\ "generate" \in acCalls
    /\ acEmitted = <<"sources", "end">>

\* C30 as stated: no step of a run changes the caller's llm object (its
\* temperature), the history or the agent's config.
C30_NoSharedMutation ==
    [][/\ llmTemperature' = llmTemperature
       /\ acHistory' = acHistory
       /\ acSearchWeb' = acSearchWeb
       /\ acRerank' = acRerank]_vars

\* C32 as stated: the list carried by the `sources` event (the output of
\* FinalSourceRetriever, sortedDocs) is the list numbered in the context: as
\* many blocks as sources, and block i is that of the i-th source.
C32_SourcesAreContext ==
    (acPc \in {"Generating", "Done"} /\ "sources" \in Range(acEmitted)) =>
        /\ acContext.count = Len(acSorted)
        /\ Len(acContext.blocks) = Len(acSorted)
        /\ \A i \in 1..Len(acContext.blocks) :
              /\ i <= Len(acSorted)
              /\ acContext.blocks[i].number = i
              /\ acContext.blocks[i].source = i

C38_TruncationDelete ==
    [][\A m \in 0..MaxMessages, c \in ChatIds :
          lastCall' = Call("deleteAfter", c, m) =>
              /\ messages'[c].rows = SelectSeq(messages[c].rows, LAMBDA row : row.id <= m)
              /\ \A d \in ChatIds \ {c} : messages'[d] = messages[d]
              /\ chats' = chats]_vars

\* C39 as stated: every chat id that has a message list is the id of a chat,
\* and an insert leaves the messages stored for an existing chat in its list.
C39_NoOrphansNoLoss ==
    /\ [](\A c \in ChatIds : messages[c].present => chats[c] # NoChat)
    /\ [][lastCall'.op \in {"insertChat", "insertMessage"} =>
             \A c \in ChatIds :
                 chats[c] # NoChat =>
                     \A i \in 1..Len(messages[c].rows) :
                         /\ i <= Len(messages'[c].rows)
                         /\ messages'[c].rows[i] = messages[c].rows[i]]_vars

(***************************************************************************)
(* The specifications, one per subsystem.                                  *)
(***************************************************************************)
StreamSpecInit ==
    StreamInit /\ RerankIdle /\ LinksIdle /\ ScoreIdle /\ ProxyIdle /\ RetryIdle
        /\ ExtractIdle
        /\ ProcIdle
        /\ SearchIdle
        /\ GroupIdle
        /\ ChainIdle
        /\ DbIdle

StreamSpec == StreamSpecInit /\ [][StreamNext]_vars

RerankSpecInit ==
    RerankInit /\ StreamIdle /\ LinksIdle /\ ScoreIdle /\ ProxyIdle /\ RetryIdle
        /\ ExtractIdle
        /\ ProcIdle
        /\ SearchIdle
        /\ GroupIdle
        /\ ChainIdle
        /\ DbIdle

RerankSpec == RerankSpecInit /\ [][RerankNext]_vars

LinksSpecInit ==
    LinksInit /\ StreamIdle /\ RerankIdle /\ ScoreIdle /\ ProxyIdle /\ RetryIdle
        /\ ExtractIdle
        /\ ProcIdle
        /\ SearchIdle
        /\ GroupIdle
        /\ ChainIdle
        /\ DbIdle

LinksSpec == LinksSpecInit /\ [][LinksNext]_vars

ScoreSpecInit ==
    ScoreInit /\ StreamIdle /\ RerankIdle /\ LinksIdle /\ ProxyIdle /\ RetryIdle
        /\ ExtractIdle
        /\ ProcIdle
        /\ SearchIdle
        /\ GroupIdle
        /\ ChainIdle
        /\ DbIdle

ScoreSpec == ScoreSpecInit /\ [][ScoreNext]_vars

ProxySpecInit ==
    ProxyInit /\ StreamIdle /\ RerankIdle /\ LinksIdle /\ ScoreIdle /\ RetryIdle
        /\ ExtractIdle
        /\ ProcIdle
        /\ SearchIdle
        /\ GroupIdle
        /\ ChainIdle
        /\ DbIdle

ProxySpec == ProxySpecInit /\ [][ProxyNext]_vars

RetrySpecInit ==
    RetryInit /\ StreamIdle /\ RerankIdle /\ LinksIdle /\ ScoreIdle /\ ProxyIdle
        /\ ExtractIdle
        /\ ProcIdle
        /\ SearchIdle
        /\ GroupIdle
        /\ ChainIdle
        /\ DbIdle

RetrySpec == RetrySpecInit /\ [][RetryNext]_vars

ExtractSpecInit ==
    ExtractInit /\ StreamIdle /\ RerankIdle /\ LinksIdle /\ ScoreIdle /\ ProxyIdle
        /\ RetryIdle
        /\ ProcIdle
        /\ SearchIdle
        /\ GroupIdle
        /\ ChainIdle
        /\ DbIdle

ExtractSpec == ExtractSpecInit /\ [][ExtractNext]_vars

ProcSpecInit ==
    ProcInit /\ StreamIdle /\ RerankIdle /\ LinksIdle /\ ScoreIdle /\ ProxyIdle
        /\ RetryIdle /\ ExtractIdle
        /\ SearchIdle
        /\ GroupIdle
        /\ ChainIdle
        /\ DbIdle

ProcSpec == ProcSpecInit /\ [][ProcNext]_vars

SearchSpecInit ==
    SearchInit
        /\ StreamIdle /\ RerankIdle /\ LinksIdle /\ ScoreIdle /\ ProxyIdle
        /\ RetryIdle /\ ExtractIdle /\ ProcIdle
        /\ GroupIdle
        /\ ChainIdle
        /\ DbIdle

SearchSpec == SearchSpecInit /\ [][SearchNext]_vars

GroupSpecInit ==
    GroupInit
        /\ StreamIdle /\ RerankIdle /\ LinksIdle /\ ScoreIdle /\ ProxyIdle
        /\ RetryIdle /\ ExtractIdle /\ ProcIdle /\ SearchIdle
        /\ ChainIdle
        /\ DbIdle

GroupSpec == GroupSpecInit /\ [][GroupNext]_vars

ChainSpecInit ==
    ChainInit
        /\ StreamIdle /\ RerankIdle /\ LinksIdle /\ ScoreIdle /\ ProxyIdle
        /\ RetryIdle /\ ExtractIdle /\ ProcIdle /\ SearchIdle /\ GroupIdle
        /\ DbIdle

ChainSpec == ChainSpecInit /\ [][ChainNext]_vars

DbSpecInit ==
    DbInit
        /\ StreamIdle /\ RerankIdle /\ LinksIdle /\ ScoreIdle /\ ProxyIdle
        /\ RetryIdle /\ ExtractIdle /\ ProcIdle /\ SearchIdle /\ GroupIdle
        /\ ChainIdle

DbSpec == DbSpecInit /\ [][DbNext]_vars

====
